---- MODULE Spec2Model ----
(***************************************************************************)
(* Request-admission and session-security core of StudySphere:             *)
(* bearer tokens (server/utils/jwt-secure.ts), rate limiting and ip        *)
(* monitoring (server/middleware/security.ts), token authentication        *)
(* (server/middleware/auth.ts), password policy and user creation.         *)
(*                                                                         *)
(* Time is Date.now() in milliseconds.  A token string is modelled by the  *)
(* record of what it encodes; two token strings are equal exactly when     *)
(* their records are equal.                                                *)
(***************************************************************************)
EXTENDS Integers, Sequences, FiniteSets, Bags, TLC

VARIABLES
    now,            \* Date.now(), milliseconds
    ticks,          \* number of clock advances so far
    jwtExpiresIn,   \* config.jwtExpiresIn, fixed at startup
    subject,        \* the user whose session is followed: [userId, email]
    issued,         \* calls generateToken has answered: [payload, token]
    nextJti,        \* source of fresh crypto.randomUUID() values
    revokedTokens,  \* Map token -> expiration timestamp
    tokenUsage,     \* Map jti -> [count, lastUsed]
    everRevoked,    \* history: tokens revokeToken was ever called on
    response,       \* what the call made at this instant returned
    activeTier,     \* the rate limiter instance that is exercised
    store,          \* its MemoryStore: <<tier, key>> -> [totalHits, resetTime]
    window,         \* history: <<tier, key>> -> the window as a client sees it
    decision,       \* what the limiter did with the request of this instant
    admitted,       \* history: <<tier, key>> -> times of the requests admitted
                    \* within the last window length
    suspiciousIPs,  \* Set of blocked ips
    ipAttempts,     \* Map ip -> [count, lastAttempt]
    inflight,       \* ip -> requests on auth paths that await their response
    ipEvent,        \* the last thing ipMonitoring did
    failures,       \* history: ip -> failed outcomes seen, and their gaps
    everBlocked,    \* history: ips that were ever put into suspiciousIPs
    bcryptRounds,   \* config.bcryptRounds, fixed at startup
    users,          \* rows of the users table: [id, email, password]
    authEvent,      \* what the http call made at this instant answered
    everAdmitted,   \* history: tokens authenticateToken ever let through
    pending,        \* bag of the tokens of refresh requests between
                    \* authenticateToken and refreshTokenHandler
    lookups,        \* bag of the requests [route, token] that wait inside
                    \* authenticateToken for the user lookup
    input,          \* the argument of the function that is being applied
    output,         \* what the function returned for it
    served          \* the stages the request of this instant went through

tokVars == <<now, ticks, jwtExpiresIn, subject, issued, nextJti, revokedTokens,
             tokenUsage, everRevoked, response>>

rateVars == <<activeTier, store, window, decision, admitted>>

ipVars == <<suspiciousIPs, ipAttempts, inflight, ipEvent, failures, everBlocked>>

authVars == <<bcryptRounds, users, authEvent, everAdmitted, pending,
              lookups>>

callVars == <<input, output>>

pipeVars == <<served>>

vars == <<tokVars, rateVars, ipVars, authVars, callVars, pipeVars>>

----------------------------------------------------------------------------
(* Bounds of the model *)

MaxTicks == 2
MaxTokens == 2
MaxUses == 1
HorizonDays == 15
MaxOver == 1
MaxOtherCalls == 1
MaxInFlight == 1
MaxChunks == 3
MaxApiCalls == 2
MaxDepth == 2
MaxPasswordLen == 256
MaxGenerated == 8

----------------------------------------------------------------------------
(* Finite maps *)

EmptyMap == << >>

MapSet(f, k, v) == [x \in (DOMAIN f) \cup {k} |-> IF x = k THEN v ELSE f[x]]

MapDel(f, k) == [x \in (DOMAIN f) \ {k} |-> f[x]]

----------------------------------------------------------------------------
(* Durations, in milliseconds *)

Second == 1000
Minute == 60 * 1000
OneHour == 60 * 60 * 1000
OneDay == 24 * 60 * 60 * 1000
SevenDays == 7 * 24 * 60 * 60 * 1000

\* The clock advances by half a second, or by the period that matters for
\* the configured lifetime: the sweep period for lifetimes of hours, the
\* default lifetime for lifetimes of days and weeks.
Steps(expiresIn) ==
    {500, IF expiresIn.unit \in {"s", "m", "h"} THEN OneHour ELSE SevenDays}

Horizon == HorizonDays * OneDay

----------------------------------------------------------------------------
(* config.jwtExpiresIn: a string <digits><unit>.  The signer (jsonwebtoken, *)
(* through the ms package) accepts the units s, m, h, d, w and y; the      *)
(* regular expression of parseJwtExpiration accepts s, m, h and d only.    *)

LifetimeStrings ==
    { [value |-> 7, unit |-> "d"],
      [value |-> 2, unit |-> "w"] }

\* What jwt.sign makes of expiresIn, in milliseconds.
SignerLifetime(expiresIn) ==
    CASE expiresIn.unit = "s" -> expiresIn.value * Second
      [] expiresIn.unit = "m" -> expiresIn.value * Minute
      [] expiresIn.unit = "h" -> expiresIn.value * OneHour
      [] expiresIn.unit = "d" -> expiresIn.value * OneDay
      [] expiresIn.unit = "w" -> expiresIn.value * SevenDays

parseJwtExpiration(expiresIn) ==
    IF expiresIn.unit \notin {"s", "m", "h", "d"}
    THEN SevenDays
    ELSE CASE expiresIn.unit = "s" -> expiresIn.value * 1000
           [] expiresIn.unit = "m" -> expiresIn.value * 60 * 1000
           [] expiresIn.unit = "h" -> expiresIn.value * 60 * 60 * 1000
           [] expiresIn.unit = "d" -> expiresIn.value * 24 * 60 * 60 * 1000

----------------------------------------------------------------------------
(* Tokens *)

Users ==
    { [userId |-> "u1", email |-> "a@example.org"],
      [userId |-> "u2", email |-> "b@example.org"] }

NoToken ==
    [form |-> "none", jti |-> 0, userId |-> "", email |-> "",
     iat |-> 0, exp |-> 0, sig |-> "none"]

\* A string that is no JWT at all.
Garbage ==
    [form |-> "garbage", jti |-> 0, userId |-> "", email |-> "",
     iat |-> 0, exp |-> 0, sig |-> "none"]

\* A well-formed token that this server's secret did not sign.
Forged ==
    [form |-> "jwt", jti |-> 0, userId |-> "u1", email |-> "a@example.org",
     iat |-> 0, exp |-> 3 * 7 * 24 * 60 * 60, sig |-> "bad"]

\* A header "Bearer  x": the field after the first space is empty.
EmptyBearer ==
    [form |-> "empty", jti |-> 0, userId |-> "", email |-> "",
     iat |-> 0, exp |-> 0, sig |-> "none"]

\* A token signed with this server's secret whose user has no row.
Orphan ==
    [form |-> "jwt", jti |-> -1, userId |-> "u2", email |-> "b@example.org",
     iat |-> 0, exp |-> 3 * 7 * 24 * 60 * 60, sig |-> "good"]

\* A token signed with this server's secret whose subject is no UUID.
Legacy ==
    [form |-> "jwt", jti |-> -2, userId |-> "a@example.org",
     email |-> "a@example.org",
     iat |-> 0, exp |-> 3 * 7 * 24 * 60 * 60, sig |-> "good"]

NoClaims == [userId |-> "", email |-> ""]

NoResponse ==
    [op |-> "none", token |-> NoToken, result |-> "none",
     claims |-> NoClaims, newToken |-> NoToken, warning |-> FALSE]

IssuedTokens == {r.token : r \in issued}

\* The strings a caller may present.
Presentable == IssuedTokens \cup {Forged, Garbage}

\* Sign with the email written into the subject claim.
SignSubjectFromEmail(payload, jti, t, expiresIn) ==
    [form |-> "jwt", jti |-> jti,
     userId |-> payload.email, email |-> payload.email,
     iat |-> t \div 1000,
     exp |-> (t \div 1000) + (SignerLifetime(expiresIn) \div 1000),
     sig |-> "good"]

\* jwt.sign: iat and exp are whole seconds.
Sign(payload, jti, t, expiresIn) ==
    [form |-> "jwt", jti |-> jti,
     userId |-> payload.userId, email |-> payload.email,
     iat |-> t \div 1000,
     exp |-> (t \div 1000) + (SignerLifetime(expiresIn) \div 1000),
     sig |-> "good"]

\* jwt.decode: the payload, whatever the signature.
Decode(token) == [userId |-> token.userId, email |-> token.email]

\* jwt.verify: the class of the error it throws, or "ok".
JwtVerify(token, t) ==
    IF token.form # "jwt" THEN "JsonWebTokenError"
    ELSE IF token.sig # "good" THEN "JsonWebTokenError"
    ELSE IF (t \div 1000) >= token.exp THEN "TokenExpiredError"
    ELSE "ok"

\* error instanceof jwt.JsonWebTokenError: in jsonwebtoken TokenExpiredError
\* and NotBeforeError are subclasses of JsonWebTokenError.
InstanceOfJsonWebTokenError(err) ==
    err \in {"JsonWebTokenError", "TokenExpiredError", "NotBeforeError"}

ErrRevoked == "Token has been revoked"
ErrInvalid == "Invalid token"
ErrExpired == "Token expired"
ErrNotActive == "Token not active"
ErrCannotRefresh == "Cannot refresh invalid token"

\* The catch block of verifyToken.
CatchVerify(err) ==
    IF InstanceOfJsonWebTokenError(err) THEN ErrInvalid
    ELSE IF err = "TokenExpiredError" THEN ErrExpired
    ELSE IF err = "NotBeforeError" THEN ErrNotActive
    ELSE err

\* verifyToken that does not consult the revocation registry.
VerifyOutcomeNoRegistry(token) ==
    IF JwtVerify(token, now) # "ok" THEN CatchVerify(JwtVerify(token, now))
    ELSE "ok"

\* verifyToken that rejects a token whose usage count is at the mark.
VerifyOutcomeBlocksReplay(token) ==
    IF token \in DOMAIN revokedTokens THEN ErrRevoked
    ELSE IF JwtVerify(token, now) # "ok" THEN CatchVerify(JwtVerify(token, now))
    ELSE IF token.jti \in DOMAIN tokenUsage
            /\ tokenUsage[token.jti].count >= 100
    THEN "Suspicious token usage"
    ELSE "ok"

\* What verifyToken(token) returns or throws in the current state.
VerifyOutcome(token) ==
    IF token \in DOMAIN revokedTokens THEN ErrRevoked
    ELSE IF JwtVerify(token, now) # "ok" THEN CatchVerify(JwtVerify(token, now))
    ELSE "ok"

\* The usage registry after a successful verification of token.
RecordUse(usage, token) ==
    LET old == IF token.jti \in DOMAIN usage
               THEN usage[token.jti]
               ELSE [count |-> 0, lastUsed |-> 0]
    IN MapSet(usage, token.jti, [count |-> old.count + 1, lastUsed |-> now])

UseCount(token) ==
    IF token.jti \in DOMAIN tokenUsage THEN tokenUsage[token.jti].count ELSE 0

\* revokeToken that forgets to store the entry.
RevokedAfterNoStore(token) == revokedTokens

\* revokeToken's writes to the two registries.
RevokedAfter(token) ==
    MapSet(revokedTokens, token, now + parseJwtExpiration(jwtExpiresIn))

\* revokeToken that leaves the usage counter in place.
UsageAfterRevokeKeeps(usage, token) == usage

UsageAfterRevoke(usage, token) ==
    IF token.form = "jwt" THEN MapDel(usage, token.jti) ELSE usage

NoDecision ==
    [op |-> "none", tier |-> "none", key |-> "none", allowed |-> TRUE,
     status |-> 0, retryAfter |-> 0]

Ips == {"ip1", "ip2"}

NoIpEvent ==
    [op |-> "none", ip |-> "none", path |-> "none", status |-> 0,
     forwarded |-> FALSE]

NoFailures == [n |-> 0, last |-> 0, gap |-> FALSE, mixed |-> FALSE]

\* A bcrypt hash string is modelled by what it embeds: the cost and, through
\* the salted digest, the password it was made from.
NoHash == [cost |-> 0, password |-> << >>]

NoUser == [id |-> "", email |-> "", password |-> NoHash]

NoAuthEvent ==
    [op |-> "none", email |-> "", password |-> << >>, token |-> NoToken,
     status |-> 0, error |-> "none", hash |-> NoHash, newToken |-> NoToken,
     verifyError |-> "none", forwarded |-> FALSE, user |-> "", route |-> "none",
     compare |-> "none"]

\* no request is being served
NoRequest ==
    [ip |-> "none", route |-> "none", stages |-> << >>, status |-> 0]

\* no function has been applied
NoCall == [fn |-> "none"]

\* environment: BCRYPT_ROUNDS defaults to 12
DefaultBcryptRounds == 12

----------------------------------------------------------------------------
(* Operations of the token module *)

Tick ==
    /\ UNCHANGED <<rateVars, ipVars, bcryptRounds, users, everAdmitted,
                   pending, lookups, callVars, pipeVars>>
    /\ authEvent' = NoAuthEvent
    /\ ticks < MaxTicks
    /\ \E d \in Steps(jwtExpiresIn) :
          /\ now + d <= Horizon
          /\ now' = now + d
    /\ ticks' = ticks + 1
    /\ response' = NoResponse
    /\ UNCHANGED <<jwtExpiresIn, subject, issued, nextJti, revokedTokens, tokenUsage,
                   everRevoked>>

GenerateToken ==
    /\ UNCHANGED <<rateVars, ipVars, bcryptRounds, users, everAdmitted,
                   pending, lookups, callVars, pipeVars>>
    /\ authEvent' = NoAuthEvent
    /\ Cardinality(issued) < MaxTokens
    /\ LET token == Sign(subject, nextJti, now, jwtExpiresIn)
       IN /\ issued' = issued \cup {[payload |-> subject, token |-> token]}
          /\ response' = [NoResponse EXCEPT !.op = "generate",
                                            !.result = "ok",
                                            !.newToken = token]
    /\ nextJti' = nextJti + 1
    /\ UNCHANGED <<now, ticks, jwtExpiresIn, subject, revokedTokens, tokenUsage,
                   everRevoked>>

\* usage.count > 100: the count above which verifyToken warns
SuspiciousUses == 100

\* A call of verifyToken, a token being verified at most Uses(token) times.
Verify(Uses(_)) ==
    /\ UNCHANGED <<rateVars, ipVars, bcryptRounds, users, everAdmitted,
                   pending, lookups, callVars, pipeVars>>
    /\ authEvent' = NoAuthEvent
    /\ \E token \in Presentable :
          LET outcome == VerifyOutcome(token)
          IN /\ outcome = "ok" => UseCount(token) < Uses(token)
             /\ tokenUsage' = IF outcome = "ok"
                              THEN RecordUse(tokenUsage, token)
                              ELSE tokenUsage
             /\ response' = [NoResponse EXCEPT
                               !.op = "verify",
                               !.token = token,
                               !.result = outcome,
                               !.claims = IF outcome = "ok"
                                          THEN Decode(token) ELSE NoClaims,
                               !.warning = /\ outcome = "ok"
                                           /\ UseCount(token) + 1 > SuspiciousUses]
    /\ UNCHANGED <<now, ticks, jwtExpiresIn, subject, issued, nextJti, revokedTokens,
                   everRevoked>>

VerifyToken == Verify(LAMBDA token : MaxUses)

RevokeToken ==
    /\ UNCHANGED <<rateVars, ipVars, bcryptRounds, users, everAdmitted,
                   pending, lookups, callVars, pipeVars>>
    /\ authEvent' = NoAuthEvent
    /\ \E token \in IssuedTokens :
          /\ revokedTokens' = RevokedAfter(token)
          /\ tokenUsage' = UsageAfterRevoke(tokenUsage, token)
          /\ everRevoked' = everRevoked \cup {token}
          /\ response' = [NoResponse EXCEPT !.op = "revoke",
                                            !.token = token,
                                            !.result = "ok"]
    /\ UNCHANGED <<now, ticks, jwtExpiresIn, subject, issued, nextJti>>

RefreshToken ==
    /\ UNCHANGED <<rateVars, ipVars, bcryptRounds, users, everAdmitted,
                   pending, lookups, callVars, pipeVars>>
    /\ authEvent' = NoAuthEvent
    /\ \E oldToken \in Presentable :
          LET outcome == VerifyOutcome(oldToken)
              newToken == Sign(Decode(oldToken), nextJti, now, jwtExpiresIn)
          IN IF outcome = "ok"
             THEN /\ Cardinality(issued) < MaxTokens
                  /\ revokedTokens' = RevokedAfter(oldToken)
                  /\ tokenUsage' =
                        UsageAfterRevoke(RecordUse(tokenUsage, oldToken), oldToken)
                  /\ everRevoked' = everRevoked \cup {oldToken}
                  /\ issued' = issued \cup
                        {[payload |-> Decode(oldToken), token |-> newToken]}
                  /\ nextJti' = nextJti + 1
                  /\ response' = [NoResponse EXCEPT
                                    !.op = "refresh",
                                    !.token = oldToken,
                                    !.result = "ok",
                                    !.newToken = newToken]
             ELSE /\ response' = [NoResponse EXCEPT
                                    !.op = "refresh",
                                    !.token = oldToken,
                                    !.result = ErrCannotRefresh]
                  /\ UNCHANGED <<revokedTokens, tokenUsage, everRevoked,
                                 issued, nextJti>>
    /\ UNCHANGED <<now, ticks, jwtExpiresIn, subject>>

\* the first loop of cleanupExpiredTokens, run at time t
UsageAfterCleanup(usage, t) ==
    [jti \in {j \in DOMAIN usage : ~(t - usage[j].lastUsed > OneHour)}
       |-> usage[jti]]

\* the second loop that also deletes an entry that expires at t
RevokedAfterCleanupEarly(revoked, t) ==
    [token \in {x \in DOMAIN revoked : ~(t >= revoked[x])} |-> revoked[token]]

\* the second loop of cleanupExpiredTokens, run at time t
RevokedAfterCleanup(revoked, t) ==
    [token \in {x \in DOMAIN revoked : ~(t > revoked[x])} |-> revoked[token]]

CleanupExpiredTokens ==
    /\ UNCHANGED <<rateVars, ipVars, bcryptRounds, users, everAdmitted,
                   pending, lookups, callVars, pipeVars>>
    /\ authEvent' = NoAuthEvent
    /\ tokenUsage' = UsageAfterCleanup(tokenUsage, now)
    /\ revokedTokens' = RevokedAfterCleanup(revokedTokens, now)
    /\ UNCHANGED <<now, ticks, jwtExpiresIn, subject, issued, nextJti, everRevoked,
                   response>>

Init ==
    /\ now = 0
    /\ ticks = 0
    /\ jwtExpiresIn \in LifetimeStrings
    /\ subject \in Users
    /\ issued = {}
    /\ nextJti = 1
    /\ revokedTokens = EmptyMap
    /\ tokenUsage = EmptyMap
    /\ everRevoked = {}
    /\ response = NoResponse
    /\ activeTier = "none"
    /\ store = EmptyMap
    /\ window = EmptyMap
    /\ decision = NoDecision
    /\ admitted = EmptyMap
    /\ suspiciousIPs = {}
    /\ ipAttempts = EmptyMap
    /\ inflight = [ip \in Ips |-> 0]
    /\ ipEvent = NoIpEvent
    /\ failures = [ip \in Ips |-> NoFailures]
    /\ everBlocked = {}
    /\ bcryptRounds = DefaultBcryptRounds
    /\ users = {}
    /\ authEvent = NoAuthEvent
    /\ everAdmitted = {}
    /\ pending = EmptyBag
    /\ lookups = EmptyBag
    /\ input = NoCall
    /\ output = NoCall
    /\ served = NoRequest

Next ==
    \/ Tick
    \/ GenerateToken
    \/ VerifyToken
    \/ RevokeToken
    \/ RefreshToken
    \/ CleanupExpiredTokens

Spec == Init /\ [][Next]_vars

----------------------------------------------------------------------------
(* One token that is verified again and again, past the mark of 100 uses *)

\* The first token that was issued is the one that is replayed.
ReplayUses(token) ==
    IF token.jti = 1 THEN SuspiciousUses + MaxOver + 1 ELSE MaxUses

ReplayVerify == Verify(ReplayUses)

\* The clock, revocations and the sweep are followed before the replay,
\* after its first use, and from the mark on.
ReplayOver ==
    \A r \in issued :
       r.token.jti = 1 => UseCount(r.token) \notin 2..(SuspiciousUses - 1)

ReplayTick == ReplayOver /\ Tick

ReplayRevoke == ReplayOver /\ RevokeToken

ReplayCleanup == ReplayOver /\ CleanupExpiredTokens

ReplayInit ==
    /\ Init
    /\ jwtExpiresIn = [value |-> 7, unit |-> "d"]
    /\ subject = CHOOSE u \in Users : u.userId = "u1"

ReplayNext ==
    \/ ReplayTick
    \/ GenerateToken
    \/ ReplayVerify
    \/ ReplayRevoke
    \/ ReplayCleanup

SpecReplay == ReplayInit /\ [][ReplayNext]_vars

----------------------------------------------------------------------------
(* The sweep, with the clock stepping by the idle limit of the counters    *)
(* as well as by the token lifetime                                        *)

SweepSteps == {500, OneHour, SevenDays}

SweepTick ==
    /\ ticks < MaxTicks
    /\ \E d \in SweepSteps :
          /\ now + d <= Horizon
          /\ now' = now + d
    /\ ticks' = ticks + 1
    /\ response' = NoResponse
    /\ authEvent' = NoAuthEvent
    /\ UNCHANGED <<jwtExpiresIn, subject, issued, nextJti, revokedTokens,
                   tokenUsage, everRevoked>>
    /\ UNCHANGED <<rateVars, ipVars, bcryptRounds, users, everAdmitted,
                   pending, lookups, callVars, pipeVars>>

SweepNext ==
    \/ SweepTick
    \/ GenerateToken
    \/ VerifyToken
    \/ RevokeToken
    \/ CleanupExpiredTokens

SpecSweep == ReplayInit /\ [][SweepNext]_vars

----------------------------------------------------------------------------
(* Rate limiting: createRateLimit and its three instances.  The counting    *)
(* is done by the memory store of express-rate-limit: one window per key,  *)
(* opened by the first request of the key and closed windowMs later.       *)

Tiers == {"auth", "api", "sensitive"}

\* The arguments of the three createRateLimit calls.
TierWindowMs(tier) ==
    CASE tier = "auth" -> 15 * 60 * 1000
      [] tier = "api" -> 1 * 60 * 1000
      [] tier = "sensitive" -> 60 * 60 * 1000

AuthMax == 5
ApiMax == 100
SensitiveMax == 3

TierMax(tier) ==
    CASE tier = "auth" -> AuthMax
      [] tier = "api" -> ApiMax
      [] tier = "sensitive" -> SensitiveMax

\* Math.round of a non-negative quotient.
RoundDiv(a, b) == (2 * a + b) \div (2 * b)

\* createRateLimit that hands the library one request too many.
createRateLimitOffByOne(windowMs, max) ==
    [windowMs |-> windowMs, max |-> max + 1,
     retryAfter |-> RoundDiv(windowMs, 1000)]

\* createRateLimit: the options given to rateLimit, and what its handler
\* puts into the 429 body.
createRateLimit(windowMs, max) ==
    [windowMs |-> windowMs, max |-> max,
     retryAfter |-> RoundDiv(windowMs, 1000)]

Limiter(tier) == createRateLimit(TierWindowMs(tier), TierMax(tier))

\* The keys are client ips: "k1" is the client under observation, the
\* others send background traffic.
Keys == {"k1", "k2"}

CallCap(tier, key) ==
    IF key = "k1" THEN TierMax(tier) + MaxOver ELSE MaxOtherCalls

\* One store for all limiters: every tier counts on the auth tier's entry.
StoreIncrementShared(st, tier, key, windowMs, t) ==
    LET id == <<"auth", key>>
        old == IF id \in DOMAIN st
               THEN st[id]
               ELSE [totalHits |-> 0, resetTime |-> t + windowMs]
        cur == IF old.resetTime <= t
               THEN [totalHits |-> 0, resetTime |-> t + windowMs]
               ELSE old
    IN [totalHits |-> cur.totalHits + 1, resetTime |-> cur.resetTime]

\* A store whose windows end after half of windowMs.
StoreIncrementHalfWindow(st, tier, key, windowMs, t) ==
    LET id == <<tier, key>>
        old == IF id \in DOMAIN st
               THEN st[id]
               ELSE [totalHits |-> 0, resetTime |-> t + windowMs \div 2]
        cur == IF old.resetTime <= t
               THEN [totalHits |-> 0, resetTime |-> t + windowMs \div 2]
               ELSE old
    IN [totalHits |-> cur.totalHits + 1, resetTime |-> cur.resetTime]

\* MemoryStore.increment: the client's entry after one more hit at time t.
\* Every rateLimit() call has a MemoryStore of its own: the tier is part of
\* the entry's place.
StoreIncrement(st, tier, key, windowMs, t) ==
    LET id == <<tier, key>>
        old == IF id \in DOMAIN st
               THEN st[id]
               ELSE [totalHits |-> 0, resetTime |-> t + windowMs]
        cur == IF old.resetTime <= t
               THEN [totalHits |-> 0, resetTime |-> t + windowMs]
               ELSE old
    IN [totalHits |-> cur.totalHits + 1, resetTime |-> cur.resetTime]

\* The window as the client counts it: it opens with the first request and
\* with the first request made once windowMs have passed since it opened.
WindowAfter(win, tier, key, t) ==
    LET id == <<tier, key>>
        W == TierWindowMs(tier)
    IN IF id \notin DOMAIN win \/ t >= win[id].start + W
       THEN [start |-> t, calls |-> 1,
             deniedBefore |-> IF id \in DOMAIN win
                              THEN win[id].deniedBefore \/ win[id].calls > TierMax(tier)
                              ELSE FALSE]
       ELSE [win[id] EXCEPT !.calls = @ + 1]

\* The steps of the clock that matter to a limiter with this window.
RateSteps(tier) == {1000, TierWindowMs(tier) \div 2, TierWindowMs(tier)}

RateTick ==
    /\ ticks < MaxTicks
    /\ \E d \in RateSteps(activeTier) : now' = now + d
    /\ ticks' = ticks + 1
    /\ decision' = NoDecision
    /\ UNCHANGED <<activeTier, store, window, admitted>>
    /\ UNCHANGED <<ipVars, authVars, callVars, pipeVars>>
    /\ UNCHANGED <<jwtExpiresIn, subject, issued, nextJti, revokedTokens,
                   tokenUsage, everRevoked, response>>

\* One request of client key through the limiter of the tier.
Admit(tier, key) ==
    LET lim == Limiter(tier)
        entry == StoreIncrement(store, tier, key, lim.windowMs, now)
        over == entry.totalHits > lim.max
    IN /\ entry.totalHits <= CallCap(tier, key)
       /\ store' = MapSet(store, <<tier, key>>, entry)
       /\ window' = MapSet(window, <<tier, key>>, WindowAfter(window, tier, key, now))
       /\ decision' = [op |-> "admit", tier |-> tier, key |-> key,
                       allowed |-> ~over,
                       status |-> IF over THEN 429 ELSE 0,
                       retryAfter |-> IF over THEN lim.retryAfter ELSE 0]
       /\ UNCHANGED <<activeTier>>
       /\ UNCHANGED <<tokVars, ipVars, authVars, callVars, pipeVars>>

RateRequest ==
    /\ \E key \in Keys : Admit(activeTier, key)
    /\ UNCHANGED admitted

RateInit ==
    /\ now = 0
    /\ ticks = 0
    /\ jwtExpiresIn = [value |-> 7, unit |-> "d"]
    /\ subject = [userId |-> "u1", email |-> "a@example.org"]
    /\ issued = {}
    /\ nextJti = 1
    /\ revokedTokens = EmptyMap
    /\ tokenUsage = EmptyMap
    /\ everRevoked = {}
    /\ response = NoResponse
    /\ activeTier \in Tiers
    /\ store = EmptyMap
    /\ window = EmptyMap
    /\ decision = NoDecision
    /\ admitted = EmptyMap
    /\ suspiciousIPs = {}
    /\ ipAttempts = EmptyMap
    /\ inflight = [ip \in Ips |-> 0]
    /\ ipEvent = NoIpEvent
    /\ failures = [ip \in Ips |-> NoFailures]
    /\ everBlocked = {}
    /\ bcryptRounds = DefaultBcryptRounds
    /\ users = {}
    /\ authEvent = NoAuthEvent
    /\ everAdmitted = {}
    /\ pending = EmptyBag
    /\ lookups = EmptyBag
    /\ input = NoCall
    /\ output = NoCall
    /\ served = NoRequest

RateNext ==
    \/ RateTick
    \/ RateRequest

SpecRate == RateInit /\ [][RateNext]_vars

----------------------------------------------------------------------------
(* Bursts across the boundary of two windows: the times of the requests a  *)
(* limiter admitted are kept for one window length.                        *)

\* the admitted requests of the last windowMs, the one of time t included
AdmittedAfter(times, windowMs, t, allowed) ==
    LET recent == SelectSeq(times, LAMBDA at : t - at <= windowMs)
    IN IF allowed THEN Append(recent, t) ELSE recent

BurstRequest ==
    \E key \in Keys :
       /\ Admit(activeTier, key)
       /\ admitted' =
             MapSet(admitted, <<activeTier, key>>,
                    AdmittedAfter(IF <<activeTier, key>> \in DOMAIN admitted
                                  THEN admitted[<<activeTier, key>>] ELSE << >>,
                                  TierWindowMs(activeTier), now,
                                  decision'.allowed))

\* the limiters with a small budget
BurstInit ==
    /\ RateInit
    /\ activeTier \in {"auth", "sensitive"}

BurstNext ==
    \/ RateTick
    \/ BurstRequest

SpecBurst == BurstInit /\ [][BurstNext]_vars

----------------------------------------------------------------------------
(* The three limiters side by side *)

\* a step that ends the api and the auth window but not the sensitive one
TiersSteps == {TierWindowMs("auth")}

TiersTick ==
    /\ ticks < MaxTicks
    /\ \E d \in TiersSteps : now' = now + d
    /\ ticks' = ticks + 1
    /\ decision' = NoDecision
    /\ UNCHANGED <<activeTier, store, window, admitted>>
    /\ UNCHANGED <<ipVars, authVars, callVars, pipeVars>>
    /\ UNCHANGED <<jwtExpiresIn, subject, issued, nextJti, revokedTokens,
                   tokenUsage, everRevoked, response>>

\* the hits the tier's store holds for the key
HitsIn(tier, key) ==
    IF <<tier, key>> \in DOMAIN store THEN store[<<tier, key>>].totalHits ELSE 0

\* A request of some client reaches the limiter of some tier; the
\* background client sends to the auth routes only.
TiersRequest ==
    \E tier \in Tiers, key \in Keys :
        /\ tier = "api" => HitsIn(tier, key) < MaxApiCalls
        /\ key # "k1" => tier = "auth"
        /\ Admit(tier, key)
        /\ UNCHANGED admitted

TiersInit ==
    /\ now = 0
    /\ ticks = 0
    /\ jwtExpiresIn = [value |-> 7, unit |-> "d"]
    /\ subject = [userId |-> "u1", email |-> "a@example.org"]
    /\ issued = {}
    /\ nextJti = 1
    /\ revokedTokens = EmptyMap
    /\ tokenUsage = EmptyMap
    /\ everRevoked = {}
    /\ response = NoResponse
    /\ activeTier = "all"
    /\ store = EmptyMap
    /\ window = EmptyMap
    /\ decision = NoDecision
    /\ admitted = EmptyMap
    /\ suspiciousIPs = {}
    /\ ipAttempts = EmptyMap
    /\ inflight = [ip \in Ips |-> 0]
    /\ ipEvent = NoIpEvent
    /\ failures = [ip \in Ips |-> NoFailures]
    /\ everBlocked = {}
    /\ bcryptRounds = DefaultBcryptRounds
    /\ users = {}
    /\ authEvent = NoAuthEvent
    /\ everAdmitted = {}
    /\ pending = EmptyBag
    /\ lookups = EmptyBag
    /\ input = NoCall
    /\ output = NoCall
    /\ served = NoRequest

TiersNext ==
    \/ TiersTick
    \/ TiersRequest

SpecTiers == TiersInit /\ [][TiersNext]_vars

----------------------------------------------------------------------------
(* ipMonitoring: the block check on arrival and the handler of the         *)
(* response's finish event, which runs when the rest of the chain has      *)
(* answered the request.                                                   *)

Paths == {"/api/auth/login", "/api/auth/register", "/api/lectures"}

\* ipMonitoring that tracks the responses of every path.
IsAuthPathAny(path) == TRUE

\* req.path.includes("/auth/login") || req.path.includes("/auth/register")
IsAuthPath(path) == path \in {"/api/auth/login", "/api/auth/register"}

\* The status codes the rest of the chain answers with.
Statuses == {200, 400, 401, 403, 429}

ReputationWindow == 60 * 60 * 1000

BlockThreshold == 10

\* The record of ip after one more failed attempt at time t, blocking one
\* attempt late.
AttemptsAfterFailureLate(attempts, ip, t) ==
    LET old == IF ip \in DOMAIN attempts
               THEN attempts[ip]
               ELSE [count |-> 0, lastAttempt |-> 0]
        kept == IF t - old.lastAttempt > ReputationWindow THEN 0 ELSE old.count
    IN [count |-> kept + 1, lastAttempt |-> t, block |-> kept + 1 > BlockThreshold]

\* The finish handler that resets the count at a gap of exactly one window.
AttemptsAfterFailureEarly(attempts, ip, t) ==
    LET old == IF ip \in DOMAIN attempts
               THEN attempts[ip]
               ELSE [count |-> 0, lastAttempt |-> 0]
        kept == IF t - old.lastAttempt >= ReputationWindow THEN 0 ELSE old.count
    IN [count |-> kept + 1, lastAttempt |-> t, block |-> kept + 1 >= BlockThreshold]

\* The finish handler on a 401 or 403: the record of ip after one more
\* failed attempt at time t, and whether the ip is blocked now.
AttemptsAfterFailure(attempts, ip, t) ==
    LET old == IF ip \in DOMAIN attempts
               THEN attempts[ip]
               ELSE [count |-> 0, lastAttempt |-> 0]
        kept == IF t - old.lastAttempt > ReputationWindow THEN 0 ELSE old.count
    IN [count |-> kept + 1, lastAttempt |-> t, block |-> kept + 1 >= BlockThreshold]

\* ipMonitoring that forgets the block check.
IsBlockedNever(ip) == FALSE

\* suspiciousIPs.has(clientIP)
IsBlocked(ip) == ip \in suspiciousIPs

\* The failed outcomes of an ip as an observer counts them: how many, when
\* the last one was, and whether two of them were ever more than the
\* reputation window apart.
FailuresAfter(f, t) ==
    IF f.gap \/ (f.n > 0 /\ t - f.last > ReputationWindow)
    THEN [n |-> 0, last |-> 0, gap |-> TRUE, mixed |-> FALSE]
    ELSE [f EXCEPT !.n = @ + 1, !.last = t]

\* ... and whether an outcome that is no failure came after the first failure.
FailuresAfterOther(f) ==
    IF f.n > 0 /\ ~f.gap THEN [f EXCEPT !.mixed = TRUE] ELSE f

AttemptCount(ip) ==
    IF ip \in DOMAIN ipAttempts THEN ipAttempts[ip].count ELSE 0

IpSteps == {1000, ReputationWindow}

IpTick ==
    /\ ticks < MaxTicks
    /\ \E d \in IpSteps : now' = now + d
    /\ ticks' = ticks + 1
    /\ UNCHANGED <<jwtExpiresIn, subject, issued, nextJti, revokedTokens,
                   tokenUsage, everRevoked, response>>
    /\ UNCHANGED <<rateVars, ipVars, bcryptRounds, users, everAdmitted,
                   pending, lookups, callVars, pipeVars>>
    /\ authEvent' = NoAuthEvent

\* A request of ip for path reaches ipMonitoring.
IpArrive(ip, path) ==
    /\ IF IsBlocked(ip)
       THEN /\ ipEvent' = [op |-> "arrive", ip |-> ip, path |-> path,
                           status |-> 403, forwarded |-> FALSE]
            /\ UNCHANGED inflight
       ELSE /\ IsAuthPath(path) => inflight[ip] < MaxInFlight
            /\ ipEvent' = [op |-> "arrive", ip |-> ip, path |-> path,
                           status |-> 0, forwarded |-> TRUE]
            /\ inflight' = IF IsAuthPath(path)
                           THEN [inflight EXCEPT ![ip] = @ + 1]
                           ELSE inflight
    /\ UNCHANGED <<suspiciousIPs, ipAttempts, failures, everBlocked>>
    /\ UNCHANGED <<tokVars, rateVars, authVars, callVars, pipeVars>>

\* The response to a forwarded request on an auth path is finished.
IpFinish(ip, status) ==
    /\ inflight[ip] > 0
    /\ inflight' = [inflight EXCEPT ![ip] = @ - 1]
    /\ ipEvent' = [op |-> "finish", ip |-> ip, path |-> "none",
                   status |-> status, forwarded |-> FALSE]
    /\ IF status = 401 \/ status = 403
       THEN LET after == AttemptsAfterFailure(ipAttempts, ip, now)
            IN /\ ip # "ip1" => AttemptCount(ip) < MaxOtherCalls
               /\ ipAttempts' = MapSet(ipAttempts, ip,
                     [count |-> after.count, lastAttempt |-> after.lastAttempt])
               /\ suspiciousIPs' = IF after.block
                                   THEN suspiciousIPs \cup {ip}
                                   ELSE suspiciousIPs
               /\ everBlocked' = IF after.block
                                 THEN everBlocked \cup {ip}
                                 ELSE everBlocked
               /\ failures' = [failures EXCEPT ![ip] = FailuresAfter(@, now)]
       ELSE /\ failures' = [failures EXCEPT ![ip] = FailuresAfterOther(@)]
            /\ UNCHANGED <<ipAttempts, suspiciousIPs, everBlocked>>
    /\ UNCHANGED <<tokVars, rateVars, authVars, callVars, pipeVars>>

IpRequest == \E ip \in Ips, path \in Paths : IpArrive(ip, path)

IpResponse == \E ip \in Ips, status \in Statuses : IpFinish(ip, status)

IpInit ==
    /\ now = 2 * ReputationWindow
    /\ ticks = 0
    /\ jwtExpiresIn = [value |-> 7, unit |-> "d"]
    /\ subject = [userId |-> "u1", email |-> "a@example.org"]
    /\ issued = {}
    /\ nextJti = 1
    /\ revokedTokens = EmptyMap
    /\ tokenUsage = EmptyMap
    /\ everRevoked = {}
    /\ response = NoResponse
    /\ activeTier = "none"
    /\ store = EmptyMap
    /\ window = EmptyMap
    /\ decision = NoDecision
    /\ admitted = EmptyMap
    /\ suspiciousIPs = {}
    /\ ipAttempts = EmptyMap
    /\ inflight = [ip \in Ips |-> 0]
    /\ ipEvent = NoIpEvent
    /\ failures = [ip \in Ips |-> NoFailures]
    /\ everBlocked = {}
    /\ bcryptRounds = DefaultBcryptRounds
    /\ users = {}
    /\ authEvent = NoAuthEvent
    /\ everAdmitted = {}
    /\ pending = EmptyBag
    /\ lookups = EmptyBag
    /\ input = NoCall
    /\ output = NoCall
    /\ served = NoRequest

IpNext ==
    \/ IpTick
    \/ IpRequest
    \/ IpResponse

SpecIp == IpInit /\ [][IpNext]_vars

----------------------------------------------------------------------------
(* All registries under the hourly sweep: requests come while the clock    *)
(* stands at its start, then the clock advances and the timer of           *)
(* setInterval(cleanupExpiredTokens) keeps firing.                         *)

LiveTick ==
    /\ ticks < MaxTicks
    /\ now + SevenDays <= Horizon
    /\ now' = now + SevenDays
    /\ ticks' = ticks + 1
    /\ response' = NoResponse
    /\ authEvent' = NoAuthEvent
    /\ UNCHANGED <<jwtExpiresIn, subject, issued, nextJti, revokedTokens,
                   tokenUsage, everRevoked>>
    /\ UNCHANGED <<rateVars, ipVars, bcryptRounds, users, everAdmitted,
                   pending, lookups, callVars, pipeVars>>

LiveGenerate == ticks = 0 /\ GenerateToken

LiveVerify == ticks = 0 /\ VerifyToken

LiveRevoke == ticks = 0 /\ RevokeToken

\* a login request reaches ipMonitoring
LiveArrive ==
    /\ ticks = 0
    /\ \E ip \in Ips :
          /\ AttemptCount(ip) < MaxOtherCalls
          /\ IpArrive(ip, "/api/auth/login")

\* and is answered
LiveFinish ==
    /\ ticks = 0
    /\ \E ip \in Ips, status \in {200, 401} :
          /\ AttemptCount(ip) < MaxOtherCalls
          /\ IpFinish(ip, status)

LiveInit ==
    /\ Init
    /\ jwtExpiresIn = [value |-> 7, unit |-> "d"]
    /\ subject = CHOOSE u \in Users : u.userId = "u1"

LiveNext ==
    \/ LiveTick
    \/ LiveGenerate
    \/ LiveVerify
    \/ LiveRevoke
    \/ LiveArrive
    \/ LiveFinish
    \/ CleanupExpiredTokens

\* the clock advances and the interval timer fires
SpecLive ==
    /\ LiveInit
    /\ [][LiveNext]_vars
    /\ WF_vars(LiveTick)
    /\ WF_vars(CleanupExpiredTokens)

----------------------------------------------------------------------------
(* PasswordSecurity.  A password is the sequence of its characters.        *)

Alphabet ==
    <<"a", "b", "c", "d", "e", "f", "g", "h", "i", "j", "k", "l", "m",
      "n", "o", "p", "q", "r", "s", "t", "u", "v", "w", "x", "y", "z">>

UpperAlphabet ==
    <<"A", "B", "C", "D", "E", "F", "G", "H", "I", "J", "K", "L", "M",
      "N", "O", "P", "Q", "R", "S", "T", "U", "V", "W", "X", "Y", "Z">>

NonZeroDigits == <<"1", "2", "3", "4", "5", "6", "7", "8", "9">>

Range(seq) == {seq[i] : i \in 1..Len(seq)}

LowercaseChars == Range(Alphabet)
UppercaseChars == Range(UpperAlphabet)
DigitChars == Range(NonZeroDigits) \cup {"0"}

\* the character class of hasSpecialChars
SpecialChars ==
    {"!", "@", "#", "$", "%", "^", "&", "*", "(", ")", "_", "+", "-", "=",
     "[", "]", "{", "}", ";", "'", ":", "\"", "\\", "|", ",", ".", "<", ">",
     "/", "?"}

\* the position of c in seq, 0 when it is not there
IndexIn(seq, c) ==
    IF c \in Range(seq) THEN CHOOSE i \in 1..Len(seq) : seq[i] = c ELSE 0

ToLower(c) ==
    IF c \in UppercaseChars THEN Alphabet[IndexIn(UpperAlphabet, c)] ELSE c

LowerCased(p) == [i \in 1..Len(p) |-> ToLower(p[i])]

\* pattern.test(p) for a pattern that is a plain string
Contains(p, pat) ==
    \E i \in 1..(Len(p) - Len(pat) + 1) :
        \A j \in 1..Len(pat) : p[i + j - 1] = pat[j]

CommonPatternsIgnoringCase ==
    { <<"p", "a", "s", "s", "w", "o", "r", "d">>,
      <<"q", "w", "e", "r", "t", "y">>,
      <<"a", "b", "c", "1", "2", "3">>,
      <<"a", "d", "m", "i", "n">>,
      <<"l", "o", "g", "i", "n">>,
      <<"w", "e", "l", "c", "o", "m", "e">> }

HasCommonPattern(p) ==
    \/ Contains(p, <<"1", "2", "3", "4", "5", "6">>)
    \/ \E pat \in CommonPatternsIgnoringCase : Contains(LowerCased(p), pat)

\* /(.)\1{2,}/
HasRepeatedChars(p) ==
    \E i \in 1..(Len(p) - 2) : p[i + 1] = p[i] /\ p[i + 2] = p[i]

\* three characters in a row that follow one another in seq
RunOfThree(p, seq) ==
    \E i \in 1..(Len(p) - 2) :
        /\ IndexIn(seq, p[i]) > 0
        /\ IndexIn(seq, p[i + 1]) = IndexIn(seq, p[i]) + 1
        /\ IndexIn(seq, p[i + 2]) = IndexIn(seq, p[i]) + 2

\* /(?:abc|bcd|...|xyz|123|234|...|789)/i
HasSequentialChars(p) ==
    RunOfThree(LowerCased(p), Alphabet) \/ RunOfThree(p, NonZeroDigits)

MIN_LENGTH == 8
MAX_LENGTH == 128

Max(a, b) == IF a >= b THEN a ELSE b

BoolInt(b) == IF b THEN 1 ELSE 0

Suggest(b, text) == IF b THEN <<text>> ELSE << >>

\* validatePassword without the penalty for sequential characters.
validatePasswordNoSequential(password) ==
    LET hasLowercase == \E i \in 1..Len(password) : password[i] \in LowercaseChars
        hasUppercase == \E i \in 1..Len(password) : password[i] \in UppercaseChars
        hasNumbers == \E i \in 1..Len(password) : password[i] \in DigitChars
        hasSpecialChars == \E i \in 1..Len(password) : password[i] \in SpecialChars
        common == HasCommonPattern(password)
        repeated == HasRepeatedChars(password)
        score == BoolInt(hasLowercase) + BoolInt(hasUppercase)
                 + BoolInt(hasNumbers) + BoolInt(hasSpecialChars)
                 + BoolInt(Len(password) >= 12) + BoolInt(Len(password) >= 16)
                 - (IF common THEN 2 ELSE 0) - BoolInt(repeated)
        suggestions ==
            Suggest(~hasLowercase, "Add lowercase letters")
            \o Suggest(~hasUppercase, "Add uppercase letters")
            \o Suggest(~hasNumbers, "Add numbers")
            \o Suggest(~hasSpecialChars, "Add special characters")
            \o Suggest(common, "Avoid common passwords and patterns")
            \o Suggest(repeated, "Avoid repeating characters")
    IN IF Len(password) < MIN_LENGTH
       THEN [isStrong |-> FALSE, score |-> 0,
             suggestions |-> <<"Password must be at least 8 characters">>]
       ELSE IF Len(password) > MAX_LENGTH
       THEN [isStrong |-> FALSE, score |-> 0,
             suggestions |-> <<"Password cannot exceed 128 characters">>]
       ELSE [isStrong |-> score >= 4 /\ suggestions = << >>,
             score |-> Max(0, score),
             suggestions |-> suggestions]

\* validatePassword that rates by the reported score alone.
validatePasswordScoreOnly(password) ==
    [validatePasswordNoSequential(password) EXCEPT
        !.isStrong = validatePasswordNoSequential(password).score >= 4]

validatePassword(password) ==
    LET hasLowercase == \E i \in 1..Len(password) : password[i] \in LowercaseChars
        hasUppercase == \E i \in 1..Len(password) : password[i] \in UppercaseChars
        hasNumbers == \E i \in 1..Len(password) : password[i] \in DigitChars
        hasSpecialChars == \E i \in 1..Len(password) : password[i] \in SpecialChars
        common == HasCommonPattern(password)
        repeated == HasRepeatedChars(password)
        sequential == HasSequentialChars(password)
        score == BoolInt(hasLowercase) + BoolInt(hasUppercase)
                 + BoolInt(hasNumbers) + BoolInt(hasSpecialChars)
                 + BoolInt(Len(password) >= 12) + BoolInt(Len(password) >= 16)
                 - (IF common THEN 2 ELSE 0) - BoolInt(repeated)
                 - BoolInt(sequential)
        suggestions ==
            Suggest(~hasLowercase, "Add lowercase letters")
            \o Suggest(~hasUppercase, "Add uppercase letters")
            \o Suggest(~hasNumbers, "Add numbers")
            \o Suggest(~hasSpecialChars, "Add special characters")
            \o Suggest(common, "Avoid common passwords and patterns")
            \o Suggest(repeated, "Avoid repeating characters")
            \o Suggest(sequential, "Avoid sequential characters")
    IN IF Len(password) < MIN_LENGTH
       THEN [isStrong |-> FALSE, score |-> 0,
             suggestions |-> <<"Password must be at least 8 characters">>]
       ELSE IF Len(password) > MAX_LENGTH
       THEN [isStrong |-> FALSE, score |-> 0,
             suggestions |-> <<"Password cannot exceed 128 characters">>]
       ELSE [isStrong |-> score >= 4 /\ suggestions = << >>,
             score |-> Max(0, score),
             suggestions |-> suggestions]

\* The passwords that are tried.
Abcd123 == <<"A", "b", "c", "d", "1", "2", "3", "!">>
Xk7mQz2 == <<"X", "k", "7", "!", "m", "Q", "z", "2">>
Troubador == <<"T", "r", "0", "u", "b", "4", "d", "o", "r", "&", "3", "!">>
PlainPassword == <<"p", "a", "s", "s", "w", "o", "r", "d">>
ShortPassword == <<"A", "b", "1", "!">>

Passwords == {Abcd123, Xk7mQz2, Troubador, PlainPassword, ShortPassword}

----------------------------------------------------------------------------
(* Registration, password hashing and token authentication.  The rate     *)
(* limiters and ipMonitoring that precede these handlers on their routes  *)
(* are the subject of SpecRate and SpecIp.                                *)

\* startup refuses a BCRYPT_ROUNDS below this
MinConfiguredRounds == 10

BcryptRoundsChoices == {MinConfiguredRounds, DefaultBcryptRounds, 14}

\* Math.max(config.bcryptRounds, 12)
MinSaltRounds == 12

SaltRounds == Max(bcryptRounds, MinSaltRounds)

\* bcrypt.hash(password, saltRounds)
BcryptHash(password, saltRounds) == [cost |-> saltRounds, password |-> password]

ErrWeak == "Password too weak"

\* PasswordSecurity.hashPassword: the hash, or the error it throws.
hashPassword(password) ==
    IF ~validatePassword(password).isStrong
    THEN [error |-> ErrWeak, hash |-> NoHash]
    ELSE [error |-> "none", hash |-> BcryptHash(password, SaltRounds)]

\* uuidv4(): the id drawn for the account of this email
NewId(email) == (CHOOSE u \in Users : u.email = email).userId

\* DatabaseSecurity.isValidUUID: the ids of Users stand for v4 uuids
isValidUUID(id) == id \in {u.userId : u \in Users}

\* UserModel.create: the row it inserts.
UserModelCreate(userData) ==
    [id |-> NewId(userData.email), email |-> userData.email,
     password |-> BcryptHash(userData.password, SaltRounds)]

findByEmail(email) ==
    IF \E u \in users : u.email = email
    THEN CHOOSE u \in users : u.email = email ELSE NoUser

findById(id) ==
    IF \E u \in users : u.id = id
    THEN CHOOSE u \in users : u.id = id ELSE NoUser

\* the symbols the password rule of validateRegister asks for
RegisterSpecials == {"@", "$", "!", "%", "*", "?", "&"}

\* body("password") of validateRegister: the length, the four lookaheads,
\* and the class of the first character.
ValidRegisterPassword(p) ==
    /\ Len(p) >= 8
    /\ Len(p) <= 128
    /\ \E i \in 1..Len(p) : p[i] \in LowercaseChars
    /\ \E i \in 1..Len(p) : p[i] \in UppercaseChars
    /\ \E i \in 1..Len(p) : p[i] \in DigitChars
    /\ \E i \in 1..Len(p) : p[i] \in RegisterSpecials
    /\ p[1] \in LowercaseChars \cup UppercaseChars \cup DigitChars
                 \cup RegisterSpecials

\* POST /api/auth/register with a well-formed name and email:
\* validateRegister, handleValidationErrors, register.
Register(email, password) ==
    /\ LET event == [NoAuthEvent EXCEPT !.op = "register", !.email = email,
                                        !.password = password]
           row == UserModelCreate([email |-> email, password |-> password])
           token == Sign([userId |-> row.id, email |-> row.email],
                         nextJti, now, jwtExpiresIn)
       IN IF ~ValidRegisterPassword(password)
          THEN /\ authEvent' = [event EXCEPT !.status = 400,
                                             !.error = "Validation failed"]
               /\ UNCHANGED <<users, issued, nextJti>>
          ELSE IF Len(password) < 8
          THEN /\ authEvent' =
                     [event EXCEPT
                        !.status = 400,
                        !.error = "Password must be at least 8 characters long"]
               /\ UNCHANGED <<users, issued, nextJti>>
          ELSE IF findByEmail(email) # NoUser
          THEN /\ authEvent' =
                     [event EXCEPT
                        !.status = 409,
                        !.error = "User with this email already exists"]
               /\ UNCHANGED <<users, issued, nextJti>>
          ELSE /\ Cardinality(issued) < MaxTokens
               /\ users' = users \cup {row}
               /\ issued' = issued \cup
                     {[payload |-> [userId |-> row.id, email |-> row.email],
                       token |-> token]}
               /\ nextJti' = nextJti + 1
               /\ authEvent' = [event EXCEPT !.status = 201,
                                             !.hash = row.password,
                                             !.newToken = token,
                                             !.user = row.id]
    /\ response' = NoResponse
    /\ UNCHANGED <<now, ticks, jwtExpiresIn, subject, revokedTokens, tokenUsage,
                   everRevoked, bcryptRounds, everAdmitted, pending, lookups>>
    /\ UNCHANGED <<rateVars, ipVars, callVars, pipeVars>>

\* A call of PasswordSecurity.hashPassword.
HashPassword(password) ==
    /\ authEvent' = [NoAuthEvent EXCEPT
                       !.op = "hashPassword",
                       !.password = password,
                       !.error = hashPassword(password).error,
                       !.hash = hashPassword(password).hash]
    /\ response' = NoResponse
    /\ UNCHANGED <<now, ticks, jwtExpiresIn, subject, issued, nextJti,
                   revokedTokens, tokenUsage, everRevoked,
                   bcryptRounds, users, everAdmitted, pending, lookups>>
    /\ UNCHANGED <<rateVars, ipVars, callVars, pipeVars>>

\* token.length < 10 || !token.includes(".")
FailsBasicCheck(token) == token.form # "jwt"

\* the routes behind authenticateToken that are followed
ProtectedRoutes == {"profile", "refresh"}

\* authenticateToken on a request for route whose Authorization header is
\* "Bearer <token>", or is missing when token is NoToken.  A request it
\* passes on to refreshTokenHandler waits in pending.  A token is verified
\* at most uses times, and at most waiting requests wait.
Authenticate(route, token, uses, waiting) ==
    /\ LET event == [NoAuthEvent EXCEPT !.op = "authenticate", !.token = token,
                                        !.route = route]
           outcome == VerifyOutcome(token)
           user == findById(Decode(token).userId)
       IN IF token = NoToken
          THEN /\ authEvent' =
                     [event EXCEPT
                        !.status = 401,
                        !.error = "Invalid authorization header format"]
               /\ UNCHANGED <<tokenUsage, everAdmitted, pending>>
          ELSE IF token = EmptyBearer
          THEN /\ authEvent' = [event EXCEPT !.status = 401,
                                             !.error = "Access token required"]
               /\ UNCHANGED <<tokenUsage, everAdmitted, pending>>
          ELSE IF FailsBasicCheck(token)
          THEN /\ authEvent' = [event EXCEPT !.status = 401,
                                             !.error = "Invalid token format"]
               /\ UNCHANGED <<tokenUsage, everAdmitted, pending>>
          ELSE IF outcome # "ok"
          THEN /\ authEvent' = [event EXCEPT
                                  !.status = 403,
                                  !.error = "Invalid or expired token",
                                  !.verifyError = outcome]
               /\ UNCHANGED <<tokenUsage, everAdmitted, pending>>
          ELSE /\ UseCount(token) < uses
               /\ tokenUsage' = RecordUse(tokenUsage, token)
               /\ IF ~isValidUUID(Decode(token).userId)
                  THEN /\ authEvent' =
                             [event EXCEPT !.status = 401,
                                           !.error = "Invalid user ID format"]
                       /\ UNCHANGED <<everAdmitted, pending>>
                  ELSE IF user = NoUser
                  THEN /\ authEvent' = [event EXCEPT !.status = 401,
                                                     !.error = "User not found"]
                       /\ UNCHANGED <<everAdmitted, pending>>
                  ELSE /\ route = "refresh" => BagCardinality(pending) < waiting
                       /\ authEvent' = [event EXCEPT !.forwarded = TRUE,
                                                     !.user = user.id]
                       /\ everAdmitted' = everAdmitted \cup {token}
                       /\ pending' = IF route = "refresh"
                                     THEN pending (+) SetToBag({token})
                                     ELSE pending
    /\ response' = NoResponse
    /\ UNCHANGED <<now, ticks, jwtExpiresIn, subject, issued, nextJti,
                   revokedTokens, everRevoked, bcryptRounds, users, lookups>>
    /\ UNCHANGED <<rateVars, ipVars, callVars, pipeVars>>

AuthenticateToken(route, token) ==
    Authenticate(route, token, MaxUses, MaxInFlight)

\* refreshToken(oldToken): what it returns or throws, which is all its
\* caller gets, and the error of verifyToken that its catch block saw.
refreshToken(oldToken) ==
    IF VerifyOutcome(oldToken) = "ok"
    THEN [error |-> "none", caught |-> "none",
          token |-> Sign(Decode(oldToken), nextJti, now, jwtExpiresIn)]
    ELSE [error |-> ErrCannotRefresh, caught |-> VerifyOutcome(oldToken),
          token |-> NoToken]

\* the catch block of refreshTokenHandler: status and body for a message
RefreshFailure(message) ==
    IF message = ErrExpired \/ message = ErrInvalid
    THEN [status |-> 401, error |-> message]
    ELSE [status |-> 500, error |-> "Internal server error"]

\* refreshTokenHandler for a request authenticateToken has passed on.
RefreshTokenHandler(oldToken) ==
    /\ BagIn(oldToken, pending)
    /\ pending' = pending (-) SetToBag({oldToken})
    /\ LET event == [NoAuthEvent EXCEPT !.op = "refresh", !.token = oldToken,
                                        !.route = "refresh"]
           result == refreshToken(oldToken)
       IN IF oldToken = NoToken
          THEN /\ authEvent' =
                     [event EXCEPT
                        !.status = 400,
                        !.error = "Refresh token must be provided in Authorization header"]
               /\ UNCHANGED <<revokedTokens, tokenUsage, everRevoked, issued,
                              nextJti>>
          ELSE IF result.error = "none"
          THEN /\ Cardinality(issued) < MaxTokens
               /\ revokedTokens' = RevokedAfter(oldToken)
               /\ tokenUsage' =
                     UsageAfterRevoke(RecordUse(tokenUsage, oldToken), oldToken)
               /\ everRevoked' = everRevoked \cup {oldToken}
               /\ issued' = issued \cup
                     {[payload |-> Decode(oldToken), token |-> result.token]}
               /\ nextJti' = nextJti + 1
               /\ authEvent' = [event EXCEPT !.status = 200,
                                             !.newToken = result.token]
          ELSE /\ authEvent' =
                     [event EXCEPT
                        !.status = RefreshFailure(result.error).status,
                        !.error = RefreshFailure(result.error).error,
                        !.verifyError = result.caught]
               /\ UNCHANGED <<revokedTokens, tokenUsage, everRevoked, issued,
                              nextJti>>
    /\ response' = NoResponse
    /\ UNCHANGED <<now, ticks, jwtExpiresIn, subject, bcryptRounds, users,
                   everAdmitted, lookups>>
    /\ UNCHANGED <<rateVars, ipVars, callVars, pipeVars>>

\* The followed user registers.
RegisterRequest == \E password \in Passwords : Register(subject.email, password)

HashRequest == \E password \in Passwords : HashPassword(password)

\* GET /api/auth/profile
ProtectedRequest ==
    \E token \in Presentable \cup {NoToken} : AuthenticateToken("profile", token)

\* POST /api/auth/refresh: authenticateToken, then refreshTokenHandler
RefreshArrival ==
    \E token \in Presentable \cup {NoToken} : AuthenticateToken("refresh", token)

RefreshRequest ==
    \E oldToken \in BagToSet(pending) : RefreshTokenHandler(oldToken)

\* The followed user registers with a password that is accepted.
RefreshRegistration == Register(subject.email, Xk7mQz2)

AuthInit ==
    /\ now = 0
    /\ ticks = 0
    /\ jwtExpiresIn \in LifetimeStrings
    /\ subject = CHOOSE u \in Users : u.userId = "u1"
    /\ issued = {}
    /\ nextJti = 1
    /\ revokedTokens = EmptyMap
    /\ tokenUsage = EmptyMap
    /\ everRevoked = {}
    /\ response = NoResponse
    /\ activeTier = "none"
    /\ store = EmptyMap
    /\ window = EmptyMap
    /\ decision = NoDecision
    /\ admitted = EmptyMap
    /\ suspiciousIPs = {}
    /\ ipAttempts = EmptyMap
    /\ inflight = [ip \in Ips |-> 0]
    /\ ipEvent = NoIpEvent
    /\ failures = [ip \in Ips |-> NoFailures]
    /\ everBlocked = {}
    /\ bcryptRounds \in BcryptRoundsChoices
    /\ users = {}
    /\ authEvent = NoAuthEvent
    /\ everAdmitted = {}
    /\ pending = EmptyBag
    /\ lookups = EmptyBag
    /\ input = NoCall
    /\ output = NoCall
    /\ served = NoRequest

AuthNext ==
    \/ Tick
    \/ RegisterRequest
    \/ HashRequest
    \/ ProtectedRequest
    \/ RevokeToken
    \/ CleanupExpiredTokens

SpecAuth == AuthInit /\ [][AuthNext]_vars

\* The refresh route, with the server's default hash cost.
RefreshInit ==
    /\ AuthInit
    /\ bcryptRounds = DefaultBcryptRounds

RefreshNext ==
    \/ Tick
    \/ RefreshRegistration
    \/ RefreshArrival
    \/ RefreshRequest
    \/ RevokeToken
    \/ CleanupExpiredTokens

SpecRefresh == RefreshInit /\ [][RefreshNext]_vars

\* Requests for the refresh route that present the same token while earlier
\* ones still wait for refreshTokenHandler: authenticateToken awaits the
\* user lookup, so a second request can pass it before the first is served.
ConcurrentArrival ==
    \E token \in IssuedTokens :
       Authenticate("refresh", token, MaxUses + 1, MaxInFlight + 1)

ConcurrentNext ==
    \/ Tick
    \/ RefreshRegistration
    \/ ConcurrentArrival
    \/ RefreshRequest
    \/ CleanupExpiredTokens

SpecConcurrent == RefreshInit /\ [][ConcurrentNext]_vars

\* authenticateToken up to its await: the header checks, verifyToken and
\* isValidUUID.  A request that passes them waits in lookups for
\* constantTimeCompare(findById(...), 100); the others are answered at once.
AuthBegin(route, token) ==
    IF \/ token \in {NoToken, EmptyBearer}
       \/ FailsBasicCheck(token)
       \/ VerifyOutcome(token) # "ok"
       \/ ~isValidUUID(Decode(token).userId)
    THEN Authenticate(route, token, MaxUses + 1, MaxInFlight + 1)
    ELSE /\ UseCount(token) < MaxUses + 1
         /\ BagCardinality(lookups) < MaxInFlight + 1
         /\ tokenUsage' = RecordUse(tokenUsage, token)
         /\ lookups' = lookups (+) SetToBag({[route |-> route, token |-> token]})
         /\ authEvent' = [NoAuthEvent EXCEPT !.op = "lookup", !.token = token,
                                             !.route = route]
         /\ response' = NoResponse
         /\ UNCHANGED <<now, ticks, jwtExpiresIn, subject, issued, nextJti,
                        revokedTokens, everRevoked, bcryptRounds, users,
                        everAdmitted, pending>>
         /\ UNCHANGED <<rateVars, ipVars, callVars, pipeVars>>

\* authenticateToken after its await: the user check and next().
AuthHandOff(req) ==
    /\ BagIn(req, lookups)
    /\ lookups' = lookups (-) SetToBag({req})
    /\ LET event == [NoAuthEvent EXCEPT !.op = "authenticate",
                                        !.token = req.token,
                                        !.route = req.route]
           user == findById(Decode(req.token).userId)
       IN IF user = NoUser
          THEN /\ authEvent' = [event EXCEPT !.status = 401,
                                             !.error = "User not found"]
               /\ UNCHANGED <<everAdmitted, pending>>
          ELSE /\ authEvent' = [event EXCEPT !.forwarded = TRUE,
                                             !.user = user.id]
               /\ everAdmitted' = everAdmitted \cup {req.token}
               /\ pending' = IF req.route = "refresh"
                             THEN pending (+) SetToBag({req.token})
                             ELSE pending
    /\ response' = NoResponse
    /\ UNCHANGED <<now, ticks, jwtExpiresIn, subject, issued, nextJti,
                   revokedTokens, tokenUsage, everRevoked, bcryptRounds, users>>
    /\ UNCHANGED <<rateVars, ipVars, callVars, pipeVars>>

\* Requests for the protected routes, each in its two steps, next to the
\* handler of the refresh route.
RaceArrival ==
    \E route \in ProtectedRoutes, token \in Presentable : AuthBegin(route, token)

RaceHandOff == \E req \in BagToSet(lookups) : AuthHandOff(req)

RaceNext ==
    \/ Tick
    \/ RefreshRegistration
    \/ RaceArrival
    \/ RaceHandOff
    \/ RefreshRequest
    \/ CleanupExpiredTokens

SpecRace == RefreshInit /\ [][RaceNext]_vars

\* What the Authorization header of a request may hold.
Headers == Presentable \cup {NoToken, EmptyBearer, Orphan, Legacy}

\* GET /api/auth/profile with any header
AdmitRequest == \E token \in Headers : AuthenticateToken("profile", token)

AdmitNext ==
    \/ Tick
    \/ RefreshRegistration
    \/ AdmitRequest
    \/ RevokeToken
    \/ CleanupExpiredTokens

SpecAdmit == RefreshInit /\ [][AdmitNext]_vars

----------------------------------------------------------------------------
(* Login and password comparison *)

\* a stored value that is no bcrypt hash
CorruptHash == [cost |-> 0, password |-> <<"#">>]

\* bcrypt.compare(plaintext, hash): what it can resolve to, or "throws".
\* For a value that is no hash bcryptjs answers false (wrong length) or
\* fails (not a string, invalid salt); the primitive itself can fail on
\* any call.
BcryptCompare(plaintext, hash) ==
    IF hash = CorruptHash
    THEN {"false", "throws"}
    ELSE {IF plaintext = hash.password THEN "true" ELSE "false", "throws"}

\* PasswordSecurity.comparePassword for an outcome of bcrypt.compare
comparePassword(outcome) == IF outcome = "throws" THEN FALSE ELSE outcome = "true"

\* UserModel.verifyPassword for an outcome of bcrypt.compare: the boolean it
\* resolves to, or "throws"
verifyPassword(outcome) == outcome

\* A call of PasswordSecurity.comparePassword on the stored hash of the
\* followed user.
ComparePassword(plaintext) ==
    /\ findByEmail(subject.email) # NoUser
    /\ \E outcome \in BcryptCompare(plaintext, findByEmail(subject.email).password) :
          authEvent' = [NoAuthEvent EXCEPT
                          !.op = "comparePassword",
                          !.password = plaintext,
                          !.compare = outcome,
                          !.forwarded = comparePassword(outcome)]
    /\ response' = NoResponse
    /\ UNCHANGED <<now, ticks, jwtExpiresIn, subject, issued, nextJti,
                   revokedTokens, tokenUsage, everRevoked,
                   bcryptRounds, users, everAdmitted, pending, lookups>>
    /\ UNCHANGED <<rateVars, ipVars, callVars, pipeVars>>

\* POST /api/auth/login with a well-formed email: validateLogin,
\* handleValidationErrors, login.
Login(email, password) ==
    /\ LET event == [NoAuthEvent EXCEPT !.op = "login", !.email = email,
                                        !.password = password]
           user == findByEmail(email)
           token == Sign([userId |-> user.id, email |-> user.email],
                         nextJti, now, jwtExpiresIn)
       IN IF password = << >>
          THEN /\ authEvent' = [event EXCEPT !.status = 400,
                                             !.error = "Validation failed"]
               /\ UNCHANGED <<issued, nextJti>>
          ELSE IF user = NoUser
          THEN /\ authEvent' = [event EXCEPT
                                  !.status = 401,
                                  !.error = "Invalid email or password"]
               /\ UNCHANGED <<issued, nextJti>>
          ELSE \E outcome \in BcryptCompare(password, user.password) :
                  IF verifyPassword(outcome) = "throws"
                  THEN /\ authEvent' = [event EXCEPT
                                          !.status = 500,
                                          !.error = "Internal server error",
                                          !.compare = outcome]
                       /\ UNCHANGED <<issued, nextJti>>
                  ELSE IF verifyPassword(outcome) = "false"
                  THEN /\ authEvent' = [event EXCEPT
                                          !.status = 401,
                                          !.error = "Invalid email or password",
                                          !.compare = outcome]
                       /\ UNCHANGED <<issued, nextJti>>
                  ELSE /\ Cardinality(issued) < MaxTokens
                       /\ issued' = issued \cup
                             {[payload |-> [userId |-> user.id,
                                            email |-> user.email],
                               token |-> token]}
                       /\ nextJti' = nextJti + 1
                       /\ authEvent' = [event EXCEPT !.status = 200,
                                                     !.newToken = token,
                                                     !.user = user.id,
                                                     !.compare = outcome]
    /\ response' = NoResponse
    /\ UNCHANGED <<now, ticks, jwtExpiresIn, subject, revokedTokens, tokenUsage,
                   everRevoked, bcryptRounds, users, everAdmitted, pending, lookups>>
    /\ UNCHANGED <<rateVars, ipVars, callVars, pipeVars>>

\* The stored hash of a user is damaged outside the program.
CorruptStoredHash ==
    /\ \E u \in users :
          /\ u.password # CorruptHash
          /\ users' = (users \ {u}) \cup {[u EXCEPT !.password = CorruptHash]}
    /\ authEvent' = NoAuthEvent
    /\ response' = NoResponse
    /\ UNCHANGED <<now, ticks, jwtExpiresIn, subject, issued, nextJti,
                   revokedTokens, tokenUsage, everRevoked,
                   bcryptRounds, everAdmitted, pending, lookups>>
    /\ UNCHANGED <<rateVars, ipVars, callVars, pipeVars>>

LoginRegistration ==
    \E password \in {Xk7mQz2, Troubador} : Register(subject.email, password)

LoginRequest ==
    \E u \in Users, password \in Passwords \cup {<< >>} : Login(u.email, password)

CompareRequest == \E password \in Passwords : ComparePassword(password)

LoginInit == AuthInit

LoginNext ==
    \/ Tick
    \/ LoginRegistration
    \/ LoginRequest
    \/ CompareRequest
    \/ CorruptStoredHash

SpecLogin == LoginInit /\ [][LoginNext]_vars

----------------------------------------------------------------------------
(* createServer: the middleware a request runs through, in the order of   *)
(* app.use and of the route's handler list.                               *)

PipeRoutes == {"ping", "login", "register", "profile", "mark-overdue"}

RoutePath(route) ==
    CASE route = "ping" -> "/api/ping"
      [] route = "login" -> "/api/auth/login"
      [] route = "register" -> "/api/auth/register"
      [] route = "profile" -> "/api/auth/profile"
      [] route = "mark-overdue" -> "/api/assignments/mark-overdue"

IsTrackedPath(route) == IsAuthPath(RoutePath(route))

\* the handler list of the route, after the app.use middleware
RouteStages(route) ==
    CASE route = "ping" -> <<"handler">>
      [] route = "login" -> <<"authRateLimit", "validateLogin", "login">>
      [] route = "register" ->
            <<"authRateLimit", "validateRegister", "register">>
      [] route = "profile" -> <<"authenticateToken", "handler">>
      [] route = "mark-overdue" ->
            <<"authenticateToken", "sensitiveRateLimit", "handler">>

\* app.use(...) in the order of createServer, then the route's list
Middleware(route) ==
    <<"ipMonitoring", "sanitizeRequest", "apiRateLimit">> \o RouteStages(route)

StageTier(stage) ==
    CASE stage = "apiRateLimit" -> "api"
      [] stage = "authRateLimit" -> "auth"
      [] stage = "sensitiveRateLimit" -> "sensitive"
      [] OTHER -> "none"

\* the state a request leaves behind and the status it ends with
PipeState(st, usage, status) == [store |-> st, usage |-> usage, status |-> status]

\* One stage of a request: the status it answers with, 0 when it calls
\* next(), and the store and usage registry it leaves.
RunStage(stage, ip, req, st, usage) ==
    IF stage = "ipMonitoring"
    THEN PipeState(st, usage, IF IsBlocked(ip) THEN 403 ELSE 0)
    ELSE IF StageTier(stage) # "none"
    THEN LET tier == StageTier(stage)
             entry == StoreIncrement(st, tier, ip, Limiter(tier).windowMs, now)
         IN PipeState(MapSet(st, <<tier, ip>>, entry), usage,
                      IF entry.totalHits > Limiter(tier).max THEN 429 ELSE 0)
    ELSE IF stage = "authenticateToken"
    THEN IF VerifyOutcome(req.token) # "ok"
         THEN PipeState(st, usage, 403)
         ELSE PipeState(st, RecordUse(usage, req.token),
                        IF findById(Decode(req.token).userId) = NoUser
                        THEN 401 ELSE 0)
    ELSE IF stage \in {"validateLogin", "validateRegister"}
    THEN PipeState(st, usage, IF req.wellFormed THEN 0 ELSE 400)
    ELSE IF stage = "login"
    THEN PipeState(st, usage, IF req.credentialsOk THEN 200 ELSE 401)
    ELSE IF stage = "register"
    THEN PipeState(st, usage,
                   IF findByEmail(req.email) # NoUser THEN 409 ELSE 201)
    ELSE IF stage = "handler"
    THEN PipeState(st, usage, 200)
    ELSE PipeState(st, usage, 0)

\* The stages from position i on, until one of them answers.
RECURSIVE RunFrom(_, _, _, _, _, _, _)
RunFrom(stages, i, ip, req, st, usage, done) ==
    IF i > Len(stages)
    THEN [store |-> st, usage |-> usage, status |-> 404, stages |-> done]
    ELSE CHOOSE result \in
            { IF after.status # 0
              THEN [store |-> after.store, usage |-> after.usage,
                    status |-> after.status, stages |-> Append(done, stages[i])]
              ELSE RunFrom(stages, i + 1, ip, req, after.store, after.usage,
                           Append(done, stages[i]))
              : after \in {RunStage(stages[i], ip, req, st, usage)} } : TRUE

\* A request from ip for route, from its arrival to the end of its response.
HandleRequest(ip, route, req) ==
  \E run \in {RunFrom(Middleware(route), 1, ip, req, store, tokenUsage, << >>)} :
    LET failed == /\ "ipMonitoring" \in Range(run.stages)
                  /\ ~IsBlocked(ip)
                  /\ IsTrackedPath(route)
                  /\ run.status \in {401, 403}
        after == AttemptsAfterFailure(ipAttempts, ip, now)
        token == Sign(subject, nextJti, now, jwtExpiresIn)
        issues == route = "login" /\ run.status = 200
    IN /\ HitsIn("api", ip) < TierMax(activeTier) + MaxOver
       /\ run.status # 201
       /\ store' = run.store
       /\ tokenUsage' = run.usage
       /\ served' = [ip |-> ip, route |-> route, stages |-> run.stages,
                     status |-> run.status]
       /\ IF failed
          THEN /\ ipAttempts' = MapSet(ipAttempts, ip,
                     [count |-> after.count, lastAttempt |-> after.lastAttempt])
               /\ suspiciousIPs' = IF after.block THEN suspiciousIPs \cup {ip}
                                   ELSE suspiciousIPs
               /\ everBlocked' = IF after.block THEN everBlocked \cup {ip}
                                 ELSE everBlocked
          ELSE UNCHANGED <<ipAttempts, suspiciousIPs, everBlocked>>
       /\ IF issues
          THEN /\ Cardinality(issued) < MaxTokens
               /\ issued' = issued \cup {[payload |-> subject, token |-> token]}
               /\ nextJti' = nextJti + 1
          ELSE UNCHANGED <<issued, nextJti>>
       /\ UNCHANGED <<now, ticks, jwtExpiresIn, subject, revokedTokens,
                      everRevoked, response>>
       /\ UNCHANGED <<activeTier, window, decision, admitted>>
       /\ UNCHANGED <<inflight, ipEvent, failures>>
       /\ UNCHANGED <<authVars, callVars>>

\* the routes that are sent to while a limiter is exercised
RoutesOf(tier) ==
    CASE tier = "api" -> {"ping"}
      [] tier = "auth" -> {"login", "register"}
      [] tier = "sensitive" -> {"profile", "mark-overdue"}

\* Registrations are tried for the email of the registered user only.
PipeRequest ==
    \E ip \in Ips, route \in PipeRoutes, token \in IssuedTokens \cup {Forged},
       credentialsOk \in BOOLEAN, wellFormed \in BOOLEAN :
        /\ route \in RoutesOf(activeTier) \/ ip # "ip1"
        /\ route \in {"ping", "login", "register"} => token = Forged
        /\ route # "login" => credentialsOk
        /\ route \notin {"login", "register"} => wellFormed
        /\ ip # "ip1" => route = "login" /\ ~credentialsOk /\ wellFormed
        /\ HandleRequest(ip, route,
                         [token |-> token, credentialsOk |-> credentialsOk,
                          wellFormed |-> wellFormed, email |-> subject.email])

PipeTick ==
    /\ ticks < MaxTicks
    /\ now' = now + TierWindowMs(activeTier)
    /\ ticks' = ticks + 1
    /\ served' = NoRequest
    /\ UNCHANGED <<jwtExpiresIn, subject, issued, nextJti, revokedTokens,
                   tokenUsage, everRevoked, response>>
    /\ UNCHANGED <<rateVars, ipVars, authVars, callVars>>

\* The followed user is registered and holds the token of the registration;
\* ip2 was blocked before.
PipeInit ==
    /\ now = 0
    /\ ticks = 0
    /\ jwtExpiresIn = [value |-> 7, unit |-> "d"]
    /\ subject = CHOOSE u \in Users : u.userId = "u1"
    /\ issued = {[payload |-> subject, token |-> Sign(subject, 1, 0, jwtExpiresIn)]}
    /\ nextJti = 2
    /\ revokedTokens = EmptyMap
    /\ tokenUsage = EmptyMap
    /\ everRevoked = {}
    /\ response = NoResponse
    /\ activeTier \in Tiers
    /\ store = EmptyMap
    /\ window = EmptyMap
    /\ decision = NoDecision
    /\ admitted = EmptyMap
    /\ suspiciousIPs = {"ip2"}
    /\ ipAttempts = MapSet(EmptyMap, "ip2",
                           [count |-> BlockThreshold, lastAttempt |-> 0])
    /\ inflight = [ip \in Ips |-> 0]
    /\ ipEvent = NoIpEvent
    /\ failures = [ip \in Ips |-> NoFailures]
    /\ everBlocked = {"ip2"}
    /\ bcryptRounds = DefaultBcryptRounds
    /\ users = {UserModelCreate([email |-> subject.email, password |-> Xk7mQz2])}
    /\ authEvent = NoAuthEvent
    /\ everAdmitted = {}
    /\ pending = EmptyBag
    /\ lookups = EmptyBag
    /\ input = NoCall
    /\ output = NoCall
    /\ served = NoRequest

PipeNext ==
    \/ PipeTick
    \/ PipeRequest

SpecPipe == PipeInit /\ [][PipeNext]_vars

----------------------------------------------------------------------------
(* validatePassword applied to passwords that are put together from       *)
(* pieces and doubled until they pass the longest length allowed.         *)

Chunks ==
    { <<"a", "b", "c">>, <<"1", "2", "3">>, <<"4", "5", "6">>,
      <<"x", "x", "x">>, <<"Q">>, <<"7">>, <<"!">>,
      PlainPassword, Xk7mQz2, Troubador }

\* the password is extended by one piece
PolicyAppend ==
    /\ input.chunks < MaxChunks
    /\ ~input.doubled
    /\ \E chunk \in Chunks :
          input' = [input EXCEPT !.password = @ \o chunk, !.chunks = @ + 1]
    /\ output' = NoCall
    /\ UNCHANGED <<tokVars, rateVars, ipVars, authVars, pipeVars>>

\* the password is written twice
PolicyDouble ==
    /\ Len(input.password) > 0
    /\ 2 * Len(input.password) <= MaxPasswordLen
    /\ input' = [input EXCEPT !.password = @ \o @, !.doubled = TRUE]
    /\ output' = NoCall
    /\ UNCHANGED <<tokVars, rateVars, ipVars, authVars, pipeVars>>

\* PasswordSecurity.validatePassword(password)
PolicyValidate ==
    /\ output = NoCall
    /\ output' = [fn |-> "validatePassword",
                  result |-> validatePassword(input.password)]
    /\ UNCHANGED <<input, tokVars, rateVars, ipVars, authVars, pipeVars>>

PolicyInit ==
    /\ now = 0
    /\ ticks = 0
    /\ jwtExpiresIn = [value |-> 7, unit |-> "d"]
    /\ subject = CHOOSE u \in Users : u.userId = "u1"
    /\ issued = {}
    /\ nextJti = 1
    /\ revokedTokens = EmptyMap
    /\ tokenUsage = EmptyMap
    /\ everRevoked = {}
    /\ response = NoResponse
    /\ activeTier = "none"
    /\ store = EmptyMap
    /\ window = EmptyMap
    /\ decision = NoDecision
    /\ admitted = EmptyMap
    /\ suspiciousIPs = {}
    /\ ipAttempts = EmptyMap
    /\ inflight = [ip \in Ips |-> 0]
    /\ ipEvent = NoIpEvent
    /\ failures = [ip \in Ips |-> NoFailures]
    /\ everBlocked = {}
    /\ bcryptRounds = DefaultBcryptRounds
    /\ users = {}
    /\ authEvent = NoAuthEvent
    /\ everAdmitted = {}
    /\ pending = EmptyBag
    /\ lookups = EmptyBag
    /\ input = [fn |-> "validatePassword", password |-> << >>,
                chunks |-> 0, doubled |-> FALSE]
    /\ output = NoCall
    /\ served = NoRequest

PolicyNext ==
    \/ PolicyAppend
    \/ PolicyDouble
    \/ PolicyValidate

SpecPolicy == PolicyInit /\ [][PolicyNext]_vars

----------------------------------------------------------------------------
(* generateSecurePassword, and hashPassword applied to what it returns.   *)
(* crypto.randomInt and crypto.randomBytes are choices among the values   *)
(* they can return; the characters drawn are those of RandomDraws.        *)

\* the charset "special" of generateSecurePassword
GeneratorSpecial ==
    {"!", "@", "#", "$", "%", "^", "&", "*", "(", ")", "_", "+", "-", "=",
     "[", "]", "{", "}", "|", ";", ":", ",", ".", "<", ">", "?"}

\* lowercase + uppercase + numbers + special
AllChars ==
    LowercaseChars \cup UppercaseChars \cup DigitChars \cup GeneratorSpecial

RandomDraws == {"a", "b", "c", "Q", "7", "!"}

\* getRandomChar(charset): the characters it can return
getRandomChar(charset) == charset \cap RandomDraws

\* the lengths asked for
GeneratedLengths == MIN_LENGTH..MaxGenerated

\* split("").sort(() => crypto.randomBytes(1)[0] - 128).join(""): the
\* comparator answers at random, so the order of the characters is the
\* sorting routine's; the orders followed are the rotations and the
\* reversal, as maps from the new position to the old one.
Shuffles(n) ==
    {[i \in 1..n |-> ((i + k - 1) % n) + 1] : k \in 0..(n - 1)}
        \cup {[i \in 1..n |-> n + 1 - i]}

\* PasswordSecurity.generateSecurePassword(length): the passwords it can
\* return, for length >= 4
generateSecurePassword(length) ==
    { [i \in 1..length |-> (required \o rest)[order[i]]] :
        required \in { <<l, u, d, x>> : l \in getRandomChar(LowercaseChars),
                                        u \in getRandomChar(UppercaseChars),
                                        d \in getRandomChar(DigitChars),
                                        x \in getRandomChar(GeneratorSpecial) },
        rest \in [1..(length - 4) -> getRandomChar(AllChars)],
        order \in Shuffles(length) }

\* a call of generateSecurePassword with the length asked for
GenerateCall ==
    /\ input.fn = "generateSecurePassword"
    /\ output = NoCall
    /\ \E password \in generateSecurePassword(input.length) :
          output' = [fn |-> "generateSecurePassword", result |-> password]
    /\ UNCHANGED <<input, tokVars, rateVars, ipVars, authVars, pipeVars>>

\* PasswordSecurity.hashPassword(password) for the password generated
HashGenerated ==
    /\ output # NoCall
    /\ output.fn = "generateSecurePassword"
    /\ input' = [fn |-> "hashPassword", length |-> input.length,
                 password |-> output.result]
    /\ output' = [fn |-> "hashPassword",
                  result |-> hashPassword(output.result)]
    /\ UNCHANGED <<tokVars, rateVars, ipVars, authVars, pipeVars>>

GenerateInit ==
    /\ now = 0
    /\ ticks = 0
    /\ jwtExpiresIn = [value |-> 7, unit |-> "d"]
    /\ subject = CHOOSE u \in Users : u.userId = "u1"
    /\ issued = {}
    /\ nextJti = 1
    /\ revokedTokens = EmptyMap
    /\ tokenUsage = EmptyMap
    /\ everRevoked = {}
    /\ response = NoResponse
    /\ activeTier = "none"
    /\ store = EmptyMap
    /\ window = EmptyMap
    /\ decision = NoDecision
    /\ admitted = EmptyMap
    /\ suspiciousIPs = {}
    /\ ipAttempts = EmptyMap
    /\ inflight = [ip \in Ips |-> 0]
    /\ ipEvent = NoIpEvent
    /\ failures = [ip \in Ips |-> NoFailures]
    /\ everBlocked = {}
    /\ bcryptRounds = DefaultBcryptRounds
    /\ users = {}
    /\ authEvent = NoAuthEvent
    /\ everAdmitted = {}
    /\ pending = EmptyBag
    /\ lookups = EmptyBag
    /\ \E length \in GeneratedLengths :
          input = [fn |-> "generateSecurePassword", length |-> length]
    /\ output = NoCall
    /\ served = NoRequest

GenerateNext ==
    \/ GenerateCall
    \/ HashGenerated

SpecGenerate == GenerateInit /\ [][GenerateNext]_vars

----------------------------------------------------------------------------
(* config/environment: the module body that runs at startup, as a         *)
(* function of process.env.  An unset variable is the empty value.        *)

\* a number as parseInt returns it
NaN == [nan |-> TRUE, value |-> 0]

Num(n) == [nan |-> FALSE, value |-> n]

DigitValue(c) == IF c = "0" THEN 0 ELSE IndexIn(NonZeroDigits, c)

\* the length of the longest prefix of text that is made of digits
RECURSIVE DigitPrefix(_)
DigitPrefix(text) ==
    IF text = << >> \/ Head(text) \notin DigitChars
    THEN 0
    ELSE 1 + DigitPrefix(Tail(text))

RECURSIVE DigitsValue(_, _)
DigitsValue(text, n) ==
    IF n = 0 THEN 0
    ELSE 10 * DigitsValue(text, n - 1) + DigitValue(text[n])

\* parseInt(text, 10) for a text without sign and leading blanks
parseInt(text) ==
    IF DigitPrefix(text) = 0 THEN NaN
    ELSE Num(DigitsValue(text, DigitPrefix(text)))

\* a < b of JavaScript: false when a is NaN
JsLess(a, b) == ~a.nan /\ a.value < b

ValidOrigins == {"https://app.example.org"}

\* isValidOrigin
isValidOrigin(origin) == origin \in ValidOrigins

DevOrigins == <<"http://localhost:8080", "http://localhost:3000">>

RandomSecretLength == 128

MinSecretLength == 32

\* the values of process.env that are tried
EnvNodeEnvs == {"", "development", "production", "test"}
EnvSecretLengths == {0, 31, 32}
EnvCorsOrigins ==
    { << >>, <<"https://app.example.org">>,
      <<"https://app.example.org", "*">>, <<"not-a-url">> }
EnvBcryptRounds ==
    { << >>, <<"1", "2">>, <<"1", "0">>, <<"9">>, <<"a", "b", "c">>,
      <<"1", "2", "x">> }

Aborted(message) == [fn |-> "startup", started |-> FALSE, error |-> message]

\* The module body: validateEnvironment, the config literal with
\* generateSecureSecret and parseCorsOrigins, the security validation.
Startup(env) ==
    LET nodeEnv == IF env.NODE_ENV = "" THEN "development" ELSE env.NODE_ENV
        secretLength == IF env.JWT_SECRET > 0 THEN env.JWT_SECRET
                        ELSE RandomSecretLength
        corsOrigins == IF env.CORS_ORIGINS = << >> THEN DevOrigins
                       ELSE env.CORS_ORIGINS
        rounds == parseInt(IF env.BCRYPT_ROUNDS = << >> THEN <<"1", "2">>
                           ELSE env.BCRYPT_ROUNDS)
    IN IF nodeEnv = "production" /\ env.JWT_SECRET < MinSecretLength
       THEN Aborted("JWT_SECRET must be at least 32 characters long in production")
       ELSE IF env.JWT_SECRET = 0 /\ nodeEnv = "production"
       THEN Aborted("JWT_SECRET environment variable is required in production")
       ELSE IF env.CORS_ORIGINS = << >> /\ nodeEnv # "development"
       THEN Aborted("CORS_ORIGINS environment variable is required in production")
       ELSE IF \E i \in 1..Len(env.CORS_ORIGINS) :
                  env.CORS_ORIGINS[i] # "*" /\ ~isValidOrigin(env.CORS_ORIGINS[i])
       THEN Aborted("Invalid CORS origin format")
       ELSE IF JsLess(rounds, MinConfiguredRounds)
       THEN Aborted("BCRYPT_ROUNDS must be at least 10 for security")
       ELSE IF nodeEnv = "production" /\ "*" \in Range(corsOrigins)
       THEN Aborted("Wildcard CORS origins not allowed in production")
       ELSE IF nodeEnv = "production" /\ secretLength < MinSecretLength
       THEN Aborted("JWT_SECRET too weak for production use")
       ELSE [fn |-> "startup", started |-> TRUE, error |-> "none",
             config |-> [nodeEnv |-> nodeEnv, jwtSecret |-> secretLength,
                         corsOrigins |-> corsOrigins, bcryptRounds |-> rounds]]

\* The server process starts.
Start ==
    /\ output = NoCall
    /\ output' = Startup(input.env)
    /\ UNCHANGED <<input, tokVars, rateVars, ipVars, authVars, pipeVars>>

ConfigInit ==
    /\ now = 0
    /\ ticks = 0
    /\ jwtExpiresIn = [value |-> 7, unit |-> "d"]
    /\ subject = CHOOSE u \in Users : u.userId = "u1"
    /\ issued = {}
    /\ nextJti = 1
    /\ revokedTokens = EmptyMap
    /\ tokenUsage = EmptyMap
    /\ everRevoked = {}
    /\ response = NoResponse
    /\ activeTier = "none"
    /\ store = EmptyMap
    /\ window = EmptyMap
    /\ decision = NoDecision
    /\ admitted = EmptyMap
    /\ suspiciousIPs = {}
    /\ ipAttempts = EmptyMap
    /\ inflight = [ip \in Ips |-> 0]
    /\ ipEvent = NoIpEvent
    /\ failures = [ip \in Ips |-> NoFailures]
    /\ everBlocked = {}
    /\ bcryptRounds = DefaultBcryptRounds
    /\ users = {}
    /\ authEvent = NoAuthEvent
    /\ everAdmitted = {}
    /\ pending = EmptyBag
    /\ lookups = EmptyBag
    /\ \E nodeEnv \in EnvNodeEnvs, secret \in EnvSecretLengths,
          origins \in EnvCorsOrigins, rounds \in EnvBcryptRounds :
          input = [fn |-> "startup",
                   env |-> [NODE_ENV |-> nodeEnv, JWT_SECRET |-> secret,
                            CORS_ORIGINS |-> origins, BCRYPT_ROUNDS |-> rounds]]
    /\ output = NoCall
    /\ served = NoRequest

ConfigNext == Start

SpecConfig == ConfigInit /\ [][ConfigNext]_vars

----------------------------------------------------------------------------
(* DatabaseSecurity.sanitizeInput.  A string is the sequence of its        *)
(* characters; NUL, BS, SUB and VT name the characters \0, \x08, \x1a and  *)
(* \x0b.  A value is a string, an array of values, or an object, the       *)
(* sequence of its entries in insertion order.                             *)

\* the characters the replace of sanitizeInput looks for
GuardedChars == {"NUL", "BS", "\t", "SUB", "\n", "\r", "\"", "'", "\\", "%"}

\* what String.prototype.trim removes at both ends
WhiteSpace == {" ", "\t", "\n", "\r", "VT", "\f"}

\* the replacement callback
EscapeChar(c) ==
    CASE c = "NUL" -> <<"\\", "0">>
      [] c = "BS" -> <<"\\", "b">>
      [] c = "\t" -> <<"\\", "t">>
      [] c = "SUB" -> <<"\\", "z">>
      [] c = "\n" -> <<"\\", "n">>
      [] c = "\r" -> <<"\\", "r">>
      [] c \in {"\"", "'", "\\", "%"} -> <<"\\", c>>
      [] OTHER -> <<c>>

RECURSIVE Escape(_)
Escape(text) ==
    IF text = << >> THEN << >>
    ELSE EscapeChar(Head(text)) \o Escape(Tail(text))

\* trim that removes one white space character at each end
TrimOneEach(text) ==
    LET front == IF text # << >> /\ Head(text) \in WhiteSpace
                 THEN Tail(text) ELSE text
    IN IF front # << >> /\ front[Len(front)] \in WhiteSpace
       THEN SubSeq(front, 1, Len(front) - 1)
       ELSE front

\* String.prototype.trim
Trim(text) ==
    LET inner == {i \in 1..Len(text) : text[i] \notin WhiteSpace}
    IN IF inner = {} THEN << >>
       ELSE SubSeq(text, CHOOSE i \in inner : \A j \in inner : i <= j,
                         CHOOSE i \in inner : \A j \in inner : i >= j)

Str(text) == [kind |-> "string", text |-> text]
Arr(items) == [kind |-> "array", items |-> items]
Obj(entries) == [kind |-> "object", entries |-> entries]

\* sanitized[key] = value on an object under construction
PutEntry(entries, key, value) ==
    IF \E i \in 1..Len(entries) : entries[i].key = key
    THEN [i \in 1..Len(entries) |->
             IF entries[i].key = key THEN [key |-> key, value |-> value]
             ELSE entries[i]]
    ELSE Append(entries, [key |-> key, value |-> value])

RECURSIVE sanitizeInput(_)
RECURSIVE SanitizeEntries(_, _, _)

\* the loop over Object.entries(input)
SanitizeEntries(entries, i, sanitized) ==
    IF i > Len(entries) THEN sanitized
    ELSE SanitizeEntries(entries, i + 1,
            PutEntry(sanitized,
                     sanitizeInput(Str(entries[i].key)).text,
                     sanitizeInput(entries[i].value)))

sanitizeInput(value) ==
    IF value.kind = "string" THEN Str(Trim(Escape(value.text)))
    ELSE IF value.kind = "array"
    THEN Arr([i \in 1..Len(value.items) |-> sanitizeInput(value.items[i])])
    ELSE IF value.kind = "object"
    THEN Obj(SanitizeEntries(value.entries, 1, << >>))
    ELSE value

\* the strings that are tried
SanTexts ==
    { << >>, <<"a">>, <<" ", " ", "a">>, <<"a", " ", "b", "VT">>, <<" ">>,
      <<"a", "'">>, <<"%">>, <<"\\", "a", "\n">>, <<"NUL", "a">> }

SanKeys == { <<"a">>, <<" ", "a">>, <<"a", "'">> }

SanFillers == { <<" ", " ", "a">>, <<"a", "'">> }

\* the values that have value as their first member
Wrappings(value) ==
    {Arr(<<value>>)}
    \cup {Arr(<<value, Str(t)>>) : t \in SanFillers}
    \cup {Obj(<<[key |-> k, value |-> value]>>) : k \in SanKeys}
    \cup UNION {{Obj(<<[key |-> k, value |-> value],
                      [key |-> k2, value |-> Str(<<"b">>)]>>) :
                    k2 \in SanKeys \ {k}} : k \in SanKeys}

\* the value is put into an array or an object
SanWrap ==
    /\ input.depth < MaxDepth
    /\ \E wrapped \in Wrappings(input.value) :
          input' = [input EXCEPT !.value = wrapped, !.depth = @ + 1]
    /\ output' = NoCall
    /\ UNCHANGED <<tokVars, rateVars, ipVars, authVars, pipeVars>>

\* sanitizeInput(value), and sanitizeInput of what it returned
Sanitize ==
    /\ output = NoCall
    /\ \E once \in {sanitizeInput(input.value)} :
          output' = [fn |-> "sanitizeInput", once |-> once,
                     twice |-> sanitizeInput(once)]
    /\ UNCHANGED <<input, tokVars, rateVars, ipVars, authVars, pipeVars>>

SanitizeInit ==
    /\ now = 0
    /\ ticks = 0
    /\ jwtExpiresIn = [value |-> 7, unit |-> "d"]
    /\ subject = CHOOSE u \in Users : u.userId = "u1"
    /\ issued = {}
    /\ nextJti = 1
    /\ revokedTokens = EmptyMap
    /\ tokenUsage = EmptyMap
    /\ everRevoked = {}
    /\ response = NoResponse
    /\ activeTier = "none"
    /\ store = EmptyMap
    /\ window = EmptyMap
    /\ decision = NoDecision
    /\ admitted = EmptyMap
    /\ suspiciousIPs = {}
    /\ ipAttempts = EmptyMap
    /\ inflight = [ip \in Ips |-> 0]
    /\ ipEvent = NoIpEvent
    /\ failures = [ip \in Ips |-> NoFailures]
    /\ everBlocked = {}
    /\ bcryptRounds = DefaultBcryptRounds
    /\ users = {}
    /\ authEvent = NoAuthEvent
    /\ everAdmitted = {}
    /\ pending = EmptyBag
    /\ lookups = EmptyBag
    /\ \E text \in SanTexts :
          input = [fn |-> "sanitizeInput", value |-> Str(text), depth |-> 0]
    /\ output = NoCall
    /\ served = NoRequest

SanitizeNext ==
    \/ SanWrap
    \/ Sanitize

SpecSanitize == SanitizeInit /\ [][SanitizeNext]_vars

----------------------------------------------------------------------------
(* Properties of the token module, checked under Spec *)

NowSec == now \div 1000

VerifiedIssued ==
    /\ response.op = "verify"
    /\ response.token \in IssuedTokens

\* C1: once revokeToken(t) was called on an issued token t, every later
\* verifyToken(t) fails: with the Revoked error up to t's own expiry, and as
\* Expired after it, swept or not.
C1_RevokedNeverVerifies ==
    (VerifiedIssued /\ response.token \in everRevoked) =>
        /\ response.result # "ok"
        /\ NowSec <= response.token.exp => response.result = ErrRevoked
        /\ NowSec > response.token.exp => response.result = ErrExpired

\* C2: right after a successful refreshToken(t) that returned t2,
\* verifyToken(t) fails with the Revoked error and verifyToken(t2) succeeds
\* with the subject id and email of t.
C2_RefreshInvalidatesOld ==
    (response.op = "refresh" /\ response.result = "ok") =>
        /\ VerifyOutcome(response.token) = ErrRevoked
        /\ VerifyOutcome(response.newToken) = "ok"
        /\ Decode(response.newToken) = Decode(response.token)
        /\ response.newToken # response.token

C2_Witness ==
    /\ response.op = "refresh"
    /\ response.result = "ok"
    /\ response.token \in DOMAIN revokedTokens
    /\ response.newToken \in IssuedTokens

\* C3: an unrevoked issued token verifies at every instant before its expiry
\* and fails at every instant after it, and that failure is the Expired
\* error ("Token expired"), not the invalid-token or the revoked one.
C3_ExpiredIsReported ==
    (VerifiedIssued /\ response.token \notin everRevoked) =>
        /\ NowSec < response.token.exp => response.result = "ok"
        /\ NowSec > response.token.exp => response.result = ErrExpired

----------------------------------------------------------------------------
(* Properties of the rate limiters, checked under SpecRate *)

Denied == decision.op = "admit" /\ ~decision.allowed

DecidedWindow == window[<<decision.tier, decision.key>>]

DecidedEntry == store[<<decision.tier, decision.key>>]

\* C5: in every tier (max M, window W) and for every key, the first M
\* requests of a window are allowed, every further request inside it is
\* denied, and the first request made once W has passed since the window
\* opened is allowed and opens a new window with count 1, whatever was
\* denied before.
C5_FixedWindow ==
    decision.op = "admit" =>
        /\ DecidedWindow.calls <= TierMax(decision.tier) => decision.allowed
        /\ DecidedWindow.calls > TierMax(decision.tier) =>
              ~decision.allowed /\ decision.status = 429
        /\ DecidedWindow.calls = 1 =>
              /\ DecidedWindow.start = now
              /\ DecidedEntry.totalHits = 1
              /\ DecidedEntry.resetTime = now + TierWindowMs(decision.tier)

\* a request that opens a new window after requests of the window before
\* it were denied
C5_Witness ==
    /\ decision.op = "admit"
    /\ decision.allowed
    /\ DecidedWindow.calls = 1
    /\ DecidedWindow.deniedBefore

\* C6: the retryAfter of a denial is the time, in seconds, that is left of
\* the client's window at the moment of the denial.
C6_RetryAfterIsRemaining ==
    Denied =>
        decision.retryAfter =
            RoundDiv(DecidedWindow.start + TierWindowMs(decision.tier) - now, 1000)

----------------------------------------------------------------------------
(* Properties of ipMonitoring, checked under SpecIp *)

\* C7: while the failed outcomes of an ip are each within the reputation
\* window of the one before, the ip's count is the number of those failures
\* (other outcomes in between change nothing), the ip is not blocked after
\* 9 of them and is blocked by the 10th.
C7_BlockedAtTenthFailure ==
    \A ip \in Ips :
        ~failures[ip].gap =>
            /\ AttemptCount(ip) = failures[ip].n
            /\ ip \in suspiciousIPs <=> failures[ip].n >= 10
            /\ failures[ip].n = 9 => ip \notin suspiciousIPs

C7_Witness ==
    /\ ipEvent.op = "finish"
    /\ ipEvent.status = 401
    /\ failures[ipEvent.ip].n = 10
    /\ failures[ipEvent.ip].mixed
    /\ ipEvent.ip \in suspiciousIPs

\* C8: an ip that was put into the blocked set is in it in every later
\* state, and every request that arrives from it is answered 403 and goes
\* no further.
C8_BlockedForGood ==
    /\ everBlocked \subseteq suspiciousIPs
    /\ (ipEvent.op = "arrive" /\ ipEvent.ip \in everBlocked) =>
          ipEvent.status = 403 /\ ~ipEvent.forwarded

\* a request of a blocked ip long after its last failure
C8_Witness ==
    /\ ipEvent.op = "arrive"
    /\ ipEvent.ip \in everBlocked
    /\ ipEvent.status = 403
    /\ now - ipAttempts[ipEvent.ip].lastAttempt > ReputationWindow

----------------------------------------------------------------------------
(* Properties of registration, hashing and authentication, checked under  *)
(* SpecAuth                                                               *)

Strong(password) == validatePassword(password).isStrong

\* a hash of password was returned, made with a cost no lower than the floor
HashedAtFloor(password) ==
    /\ authEvent.hash.password = password
    /\ authEvent.hash.cost >= MinSaltRounds
    /\ authEvent.hash.cost >= bcryptRounds

\* the protected call made with a token that is neither revoked nor expired
\* is let through, as the user the token was issued to
AdmitsLiveToken ==
    ( /\ authEvent.op = "authenticate"
      /\ authEvent.token \in IssuedTokens
      /\ authEvent.token \notin DOMAIN revokedTokens
      /\ NowSec < authEvent.token.exp )
    => /\ authEvent.forwarded
       /\ authEvent.user = authEvent.token.userId

\* the protected call made with a token the revocation registry holds is
\* denied, and the error of verifyToken is the Revoked one
DeniesRevokedToken ==
    ( /\ authEvent.op = "authenticate"
      /\ authEvent.token \in DOMAIN revokedTokens )
    => /\ ~authEvent.forwarded
       /\ authEvent.status = 403
       /\ authEvent.verifyError = ErrRevoked

C10_WeakNeverHashed ==
    /\ (authEvent.op = "hashPassword" /\ ~Strong(authEvent.password))
          => authEvent.error = ErrWeak /\ authEvent.hash = NoHash
    /\ (authEvent.op = "register" /\ ~Strong(authEvent.password))
          => authEvent.hash = NoHash /\ authEvent.status # 201
    /\ \A u \in users : Strong(u.password.password)

----------------------------------------------------------------------------
(* Properties of the password policy, checked under SpecPolicy *)

Validated == output # NoCall /\ output.fn = "validatePassword"

InLengthRange(p) == Len(p) >= 8 /\ Len(p) <= 128

ClassesPresent(p) ==
    Cardinality({class \in {LowercaseChars, UppercaseChars, DigitChars,
                            SpecialChars} :
                    \E i \in 1..Len(p) : p[i] \in class})

\* the points of the rule: classes, length bonuses, penalties
PolicyPoints(p) ==
    ClassesPresent(p)
    + (IF Len(p) >= 12 THEN 1 ELSE 0) + (IF Len(p) >= 16 THEN 1 ELSE 0)
    - (IF HasCommonPattern(p) THEN 2 ELSE 0)
    - (IF HasRepeatedChars(p) THEN 1 ELSE 0)
    - (IF HasSequentialChars(p) THEN 1 ELSE 0)

\* C11 (as amended): a password shorter than 8 or longer than 128 characters
\* is rejected at once with score 0; otherwise the reported score is the
\* points of the rule, but never below 0, and strong is true exactly when
\* the points are at least 4 and the suggestion list is empty; "password" is
\* not strong and "Tr0ub4dor&3!" is strong.
C11_PolicyScore ==
    Validated =>
        LET p == input.password
            r == output.result
        IN /\ ~InLengthRange(p) =>
                 r.score = 0 /\ ~r.isStrong /\ Len(r.suggestions) = 1
           /\ InLengthRange(p) =>
                 /\ r.score = Max(0, PolicyPoints(p))
                 /\ r.isStrong <=> (PolicyPoints(p) >= 4 /\ r.suggestions = << >>)
           /\ p = PlainPassword => ~r.isStrong
           /\ p = Troubador => r.isStrong

\* a password of four classes and at least 16 characters whose points are
\* still 4 after the penalties, and that is not strong
C11_Witness ==
    /\ Validated
    /\ Len(input.password) >= 16
    /\ HasSequentialChars(input.password)
    /\ ~HasCommonPattern(input.password)
    /\ PolicyPoints(input.password) = 4
    /\ output.result.score = 4
    /\ ~output.result.isStrong

\* C11 (as stated): within the length range the score is the points of the
\* rule.
C11_AsStated ==
    Validated =>
        LET p == input.password
            r == output.result
        IN /\ ~InLengthRange(p) => r.score = 0 /\ ~r.isStrong
           /\ InLengthRange(p) =>
                 /\ r.score = PolicyPoints(p)
                 /\ r.isStrong <=> (PolicyPoints(p) >= 4 /\ r.suggestions = << >>)
           /\ p = PlainPassword => ~r.isStrong
           /\ p = Troubador => r.isStrong

----------------------------------------------------------------------------
(* Properties of the refresh route, checked under SpecRefresh *)

\* C12: when refreshToken fails because verifyToken failed, what reaches the
\* caller keeps the error of verifyToken: the handler answers a token that
\* verifyToken called expired or invalid with 401 and that message, and
\* never answers a failed verification with the generic 500.
C12_RefreshKeepsCause ==
    (authEvent.op = "refresh" /\ authEvent.verifyError # "none") =>
        /\ authEvent.status # 500
        /\ authEvent.verifyError \in {ErrExpired, ErrInvalid} =>
              /\ authEvent.status = 401
              /\ authEvent.error = authEvent.verifyError

----------------------------------------------------------------------------
(* Properties of the limiters side by side, checked under SpecTiers *)

\* C13: the tiers keep separate state: for every tier and key the store
\* holds exactly the requests that this key sent to this tier in its current
\* window, and the window's start, whatever was decided for other tiers and
\* keys in between; a decision depends on the tier's own count only.
C13_TiersIsolated ==
    /\ DOMAIN store = DOMAIN window
    /\ \A id \in DOMAIN store :
          /\ store[id].totalHits = window[id].calls
          /\ store[id].resetTime = window[id].start + TierWindowMs(id[1])
    /\ decision.op = "admit" =>
          (decision.allowed <=> DecidedWindow.calls <= TierMax(decision.tier))

\* the auth budget of a client is exhausted while its sensitive and api
\* budgets are partly used and unchanged by that
C13_Witness ==
    /\ decision.op = "admit"
    /\ decision.tier = "auth"
    /\ ~decision.allowed
    /\ HitsIn("auth", decision.key) = AuthMax + 1
    /\ HitsIn("sensitive", decision.key) = 2
    /\ HitsIn("api", decision.key) = 1

----------------------------------------------------------------------------
(* Properties of login, checked under SpecLogin *)

\* C14: a fault of the comparison is a failed verification: comparePassword
\* yields false, and a login whose comparison faults is answered like one
\* with a wrong password, 401 with the generic invalid-credentials message,
\* never with another response.
C14_CompareFaultDenies ==
    /\ (authEvent.op = "comparePassword" /\ authEvent.compare = "throws")
          => ~authEvent.forwarded
    /\ (authEvent.op = "login" /\ authEvent.compare = "throws")
          => /\ authEvent.status = 401
             /\ authEvent.error = "Invalid email or password"
             /\ authEvent.newToken = NoToken

----------------------------------------------------------------------------
(* Properties of the configuration, checked under SpecConfig *)

\* C15: startup completes only with a valid configuration: the hash cost is
\* a number that is at least 10, and in production mode the signing secret
\* was given and has at least 32 characters and the origin list was given
\* and holds no wildcard.
C15_StartsOnlyIfValid ==
    (output # NoCall /\ output.started) =>
        /\ ~output.config.bcryptRounds.nan
        /\ output.config.bcryptRounds.value >= 10
        /\ output.config.nodeEnv = "production" =>
              /\ input.env.JWT_SECRET >= 32
              /\ input.env.CORS_ORIGINS # << >>
              /\ "*" \notin Range(input.env.CORS_ORIGINS)

----------------------------------------------------------------------------
(* Properties of the request pipeline, checked under SpecPipe *)

\* the place of a stage in the order sanitization, ip-block check,
\* rate-limit check, route logic
StageRank(stage) ==
    CASE stage = "sanitizeRequest" -> 1
      [] stage = "ipMonitoring" -> 2
      [] StageTier(stage) # "none" -> 3
      [] OTHER -> 4

VerificationStages == {"login", "authenticateToken"}

\* C16: every request passes the stages in the order sanitization, ip-block
\* check, rate-limit check, route logic, and a request rejected at a stage
\* reaches no later stage: a blocked ip's request reaches no limiter and a
\* request that a limiter rejects has reached no credential or token
\* verification.
C16_StageOrder ==
    /\ \A i, j \in 1..Len(served.stages) :
          i < j => StageRank(served.stages[i]) <= StageRank(served.stages[j])
    /\ (served.status = 403 /\ served.ip \in everBlocked) =>
          \A i \in 1..Len(served.stages) : StageTier(served.stages[i]) = "none"
    /\ served.status = 429 =>
          Range(served.stages) \cap VerificationStages = {}

----------------------------------------------------------------------------
(* Properties of sanitizeInput, checked under SpecSanitize *)

RECURSIVE IsSafe(_)
\* no string of the value, keys included, holds a guarded character
IsSafe(value) ==
    IF value.kind = "string" THEN Range(value.text) \cap GuardedChars = {}
    ELSE IF value.kind = "array"
    THEN \A i \in 1..Len(value.items) : IsSafe(value.items[i])
    ELSE \A i \in 1..Len(value.entries) :
            /\ Range(value.entries[i].key) \cap GuardedChars = {}
            /\ IsSafe(value.entries[i].value)

Sanitized == output # NoCall /\ output.fn = "sanitizeInput"

\* C17: for a string without guarded characters, and for every nested array
\* or object built from such strings, sanitizing what sanitizeInput returned
\* returns the same value again.
C17_SanitizeIdempotent ==
    (Sanitized /\ IsSafe(input.value)) => output.twice = output.once

\* an object inside an array, all strings safe, that the first pass changes
\* (white space trimmed, two keys merged into one)
C17_Witness ==
    /\ Sanitized
    /\ IsSafe(input.value)
    /\ input.depth = 2
    /\ input.value.kind = "array"
    /\ input.value.items[1].kind = "object"
    /\ Len(input.value.items[1].entries) = 2
    /\ Len(output.once.items[1].entries) = 1
    /\ output.once # input.value
    /\ output.twice = output.once

----------------------------------------------------------------------------
(* Properties of concurrent refreshes, checked under SpecConcurrent, where *)
(* refreshToken is the only caller of revokeToken: everRevoked holds the   *)
(* tokens that have a successor issued by refresh.                         *)

Superseded == everRevoked

\* a refresh request was answered with a new token
RefreshWon(event) == event.op = "refresh" /\ event.status = 200

\* C18: of the refresh requests that present the same token at most one
\* obtains a new token and the others fail, and in every reachable state a
\* token that has a successor issued by refresh is in the revocation
\* registry: it is never both superseded and accepted by verifyToken.
C18_RefreshAtomic ==
    /\ [][RefreshWon(authEvent') => authEvent'.token \notin Superseded]_vars
    /\ [](\A token \in Superseded :
             \/ token \in DOMAIN revokedTokens
             \/ VerifyOutcome(token) # "ok")

\* of two waiting requests with the same token the second one has failed
C18_SecondFails ==
    /\ authEvent.op = "refresh"
    /\ authEvent.status # 200
    /\ authEvent.verifyError = ErrRevoked
    /\ authEvent.token \in Superseded
    /\ authEvent.token \in everAdmitted

----------------------------------------------------------------------------
(* Properties of authenticateToken, checked under SpecAdmit *)

Authenticated == authEvent.op = "authenticate"

\* what verifyToken checks, on the state authenticateToken leaves unchanged
AcceptedBearer(token) ==
    /\ token \notin {NoToken, EmptyBearer}
    /\ token.form = "jwt"
    /\ token \notin DOMAIN revokedTokens
    /\ token.sig = "good"
    /\ (now \div 1000) < token.exp

----------------------------------------------------------------------------
(* Properties of the failure count of ipMonitoring, checked under SpecIp *)

\* this step is the finish handler of ip seeing a 401 or 403
FailureStep(ip) ==
    /\ ipEvent'.op = "finish"
    /\ ipEvent'.ip = ip
    /\ ipEvent'.status \in {401, 403}
    /\ inflight'[ip] < inflight[ip]

\* an earlier failure of ip is on record, and it is more than the
\* reputation window old
PreviousFailureIsOld(ip) ==
    /\ ip \in DOMAIN ipAttempts
    /\ now - ipAttempts[ip].lastAttempt > ReputationWindow

\* C20: on a failed authentication from an ip the failure count becomes 1
\* when more than the reputation window (1 hour) has passed since that ip's
\* previous failure, and the previous count plus 1 otherwise; the time of
\* the failure is recorded and no other ip's count changes.
C20_CountResetsAfterWindow ==
    [][\A ip \in Ips :
          FailureStep(ip) =>
             /\ ipAttempts'[ip].count =
                   IF PreviousFailureIsOld(ip) THEN 1 ELSE AttemptCount(ip) + 1
             /\ ipAttempts'[ip].lastAttempt = now
             /\ \A other \in Ips \ {ip} :
                   /\ (other \in DOMAIN ipAttempts') = (other \in DOMAIN ipAttempts)
                   /\ other \in DOMAIN ipAttempts =>
                         ipAttempts'[other] = ipAttempts[other]]_vars

\* three failures, each exactly one window after the one before it: the
\* sequence lasts two windows and the count is 3
C20_Witness ==
    /\ ipEvent.op = "finish"
    /\ ipEvent.status \in {401, 403}
    /\ ipEvent.ip = "ip1"
    /\ "ip1" \in DOMAIN ipAttempts
    /\ ipAttempts["ip1"].count = 3
    /\ ipAttempts["ip1"].lastAttempt = now
    /\ now = 4 * ReputationWindow
    /\ ticks = 2

----------------------------------------------------------------------------
(* Properties of the usage counters, checked under SpecReplay *)

\* what jwt.verify and the registry lookup ask of a token
WouldVerify(token) ==
    /\ token.form = "jwt"
    /\ token.sig = "good"
    /\ (now \div 1000) < token.exp
    /\ token \notin DOMAIN revokedTokens

\* C21: verifyToken of a well signed, unexpired, unrevoked token succeeds
\* whatever its usage count is, counts above 100 included; a successful
\* verification raises the count of the token's id by exactly one and of no
\* other id, a failed one changes no count, and passing 100 uses does
\* nothing but emit a warning.
C21_MonitorOnlyObserves ==
    [][ReplayVerify =>
          LET token == response'.token
          IN /\ WouldVerify(token) <=> response'.result = "ok"
             /\ response'.result = "ok" =>
                   /\ token.jti \in DOMAIN tokenUsage'
                   /\ tokenUsage'[token.jti].count = UseCount(token) + 1
                   /\ \A jti \in (DOMAIN tokenUsage) \ {token.jti} :
                         /\ jti \in DOMAIN tokenUsage'
                         /\ tokenUsage'[jti] = tokenUsage[jti]
                   /\ DOMAIN tokenUsage' = DOMAIN tokenUsage \cup {token.jti}
             /\ response'.result # "ok" => tokenUsage' = tokenUsage
             /\ response'.warning =
                   (response'.result = "ok" /\ UseCount(token) >= SuspiciousUses)
             /\ UNCHANGED <<revokedTokens, issued, everRevoked>>]_vars

\* the 102nd verification of a token succeeds, with a warning
C21_Witness ==
    /\ response.op = "verify"
    /\ response.result = "ok"
    /\ response.warning
    /\ response.token \in IssuedTokens
    /\ UseCount(response.token) = SuspiciousUses + 2

----------------------------------------------------------------------------
(* Properties of cleanupExpiredTokens, checked under SpecSweep *)

\* C22: cleanupExpiredTokens run at time now removes exactly the revocation
\* entries whose stored expiry is earlier than now and exactly the usage
\* counters idle for more than one hour, leaves every other entry of both
\* registries as it was, and a second run at the same instant changes
\* nothing.
C22_SweepIsExact ==
    [][CleanupExpiredTokens =>
          /\ DOMAIN revokedTokens' =
                {token \in DOMAIN revokedTokens : revokedTokens[token] >= now}
          /\ \A token \in DOMAIN revokedTokens' :
                revokedTokens'[token] = revokedTokens[token]
          /\ DOMAIN tokenUsage' =
                {jti \in DOMAIN tokenUsage :
                    now - tokenUsage[jti].lastUsed <= OneHour}
          /\ \A jti \in DOMAIN tokenUsage' : tokenUsage'[jti] = tokenUsage[jti]
          /\ now' = now
          /\ RevokedAfterCleanup(revokedTokens', now') = revokedTokens'
          /\ UsageAfterCleanup(tokenUsage', now') = tokenUsage']_vars

\* a sweep has removed a revocation entry, and a counter that was last used
\* exactly one hour ago is still there
C22_Witness ==
    /\ everRevoked \ DOMAIN revokedTokens # {}
    /\ \E jti \in DOMAIN tokenUsage : now - tokenUsage[jti].lastUsed = OneHour

\* the token's own expiry, in milliseconds
NaturalExpiry(token) == token.exp * 1000

\* C23: a revocation entry never outlives the revoked token's natural
\* expiry: the expiry stored for a revoked token is not later than the
\* token's own expiry, and once that expiry has passed the entry is gone.
C23_EntryWithinLifetime ==
    \A token \in DOMAIN revokedTokens :
       /\ revokedTokens[token] <= NaturalExpiry(token)
       /\ now <= NaturalExpiry(token)

----------------------------------------------------------------------------
(* Properties of the registries under the sweep, checked under SpecLive,   *)
(* where requests stop and the clock and the sweep go on                   *)

RevocationsLeave == <>[](DOMAIN revokedTokens = {})

CountersLeave == <>[](DOMAIN tokenUsage = {})

\* C24: under periodic sweeps and an advancing clock every revocation
\* entry, every usage counter and every per-ip failure record is removed in
\* the end, once requests no longer touch it.
C24_EveryEntryLeaves ==
    /\ RevocationsLeave
    /\ CountersLeave
    /\ <>[](DOMAIN ipAttempts = {})

----------------------------------------------------------------------------
(* Properties of the stored expiry, checked under Spec with the lifetime   *)
(* strings 7d and 2w                                                       *)

\* C25: for every lifetime string the signer accepts, those outside
\* <digits><s|m|h|d> included, the expiry revokeToken stores is no earlier
\* than the revoked token's own expiry, so that no sweep removes the entry
\* of a token that would otherwise still verify.
C25_EntryCoversLifetime ==
    /\ \A token \in DOMAIN revokedTokens :
          revokedTokens[token] \div 1000 >= token.exp
    /\ \A token \in everRevoked :
          JwtVerify(token, now) = "ok" => token \in DOMAIN revokedTokens

\* C26: no token that is in the revocation registry has a usage counter for
\* its token id: revokeToken deletes the counter, and verifyToken looks the
\* token up in the registry before it records a use.
C26_RevokedHasNoCounter ==
    \A token \in DOMAIN revokedTokens : token.jti \notin DOMAIN tokenUsage

\* a revoked token has just been refused while the counter of another token
\* is in place
C26_Witness ==
    /\ response.op = "verify"
    /\ response.result = ErrRevoked
    /\ response.token \in DOMAIN revokedTokens
    /\ DOMAIN tokenUsage # {}

----------------------------------------------------------------------------
(* Properties of authenticateToken next to concurrent requests, checked    *)
(* under SpecRace                                                          *)

\* C27: a protected request is handed to route logic only if its token is
\* not in the revocation registry at the moment of the hand-off, also when
\* a refresh revokes the token while authenticateToken waits for the user
\* lookup.
C27_NoHandOffOfRevoked ==
    (authEvent.op = "authenticate" /\ authEvent.forwarded) =>
       authEvent.token \notin DOMAIN revokedTokens

----------------------------------------------------------------------------
(* Properties of bursts over two windows, checked under SpecBurst *)

\* C28: in any time interval no longer than one window length a tier
\* admits at most 2 * max requests of one client key.  An interval of
\* admitted requests ends with one of them, so the intervals that end with
\* the request of this instant are the ones to count.
C28_AtMostTwiceMax ==
    decision.op = "admit" =>
       LET id == <<decision.tier, decision.key>>
       IN /\ Len(admitted[id]) <= 2 * TierMax(decision.tier)
          /\ \A i \in 1..Len(admitted[id]) :
                now - admitted[id][i] <= TierWindowMs(decision.tier)
          /\ decision.allowed => admitted[id][Len(admitted[id])] = now

\* max requests at the start of one window and max at the start of the
\* next, one window length later: 2 * max admitted within one window length
C28_Witness ==
    /\ decision.op = "admit"
    /\ decision.allowed
    /\ decision.key = "k1"
    /\ Len(admitted[<<decision.tier, "k1">>]) = 2 * TierMax(decision.tier)

----------------------------------------------------------------------------
(* Properties of the failure records in the whole pipeline, checked under  *)
(* SpecPipe                                                                *)

\* C29: an ip's failure record or the blocked set changes only with a
\* response 401 or 403 to a request on the login or register path that
\* passed the ip-block check, and then only for the ip of that request:
\* requests the ip-block check or a limiter denied, successful logins,
\* validation failures and requests to other routes leave both unchanged.
C29_OnlyAuthFailuresCount ==
    [][(ipAttempts' # ipAttempts \/ suspiciousIPs' # suspiciousIPs) =>
          /\ served'.route \in {"login", "register"}
          /\ served'.status \in {401, 403}
          /\ served'.ip \notin suspiciousIPs
          /\ \A ip \in Ips \ {served'.ip} :
                /\ (ip \in suspiciousIPs') = (ip \in suspiciousIPs)
                /\ (ip \in DOMAIN ipAttempts') = (ip \in DOMAIN ipAttempts)
                /\ ip \in DOMAIN ipAttempts => ipAttempts'[ip] = ipAttempts[ip]]_vars

\* a login was denied by the limiter of the auth tier after five failed
\* logins were counted: the count is still 5
C29_Witness ==
    /\ served.route = "login"
    /\ served.status = 429
    /\ served.ip = "ip1"
    /\ "ip1" \in DOMAIN ipAttempts
    /\ ipAttempts["ip1"].count = AuthMax
    /\ ipAttempts["ip1"].lastAttempt = now

----------------------------------------------------------------------------
(* Properties of generated passwords, checked under SpecGenerate           *)

Generated == output # NoCall /\ output.fn = "generateSecurePassword"

HasCharIn(password, class) ==
    \E i \in 1..Len(password) : password[i] \in class

\* C30: a password returned by generateSecurePassword(n), 8 <= n <= 128,
\* has exactly n characters, has a lowercase letter, an uppercase letter, a
\* digit and a symbol, and is rated strong by validatePassword, so that
\* hashPassword accepts it.
C30_GeneratedIsStrong ==
    Generated =>
        /\ Len(output.result) = input.length
        /\ HasCharIn(output.result, LowercaseChars)
        /\ HasCharIn(output.result, UppercaseChars)
        /\ HasCharIn(output.result, DigitChars)
        /\ HasCharIn(output.result, SpecialChars)
        /\ validatePassword(output.result).isStrong
        /\ hashPassword(output.result).error = "none"

====
